---------------------------- MODULE Spec2Model ----------------------------
(***************************************************************************)
(* A model of the path library bundled with the repository: the disk,     *)
(* memory, zip-archive and optical-image paths of bp/, the generic tree    *)
(* algorithms of bp/generic.py and the VCS-backed paths of l/project.py.   *)
(*                                                                         *)
(* Strings are sequences of one-character strings, so that the string      *)
(* functions of the code (split, join, normpath, startswith, dirname) are  *)
(* computed character by character, as Python computes them.              *)
(***************************************************************************)
EXTENDS Integers, Sequences, FiniteSets, TLC

VARIABLES
    cur,        \* navigation: the path value the caller holds
    last,       \* navigation: the last call made on it and what it returned
    repo,       \* VCS: the path from_path() returned for the repository root
    disk,       \* the disk: directory entries (dir) and file contents by inode (data)
    stack,      \* walk: the suspended genericWalk generators, outermost first
    yielded,    \* walk: the paths walk has yielded so far
    wstatus,    \* walk: "idle", "setup", "running", "done" or the exception raised
    mem,        \* the MemoryFS: _store and _dirs
    zip,        \* the ZipFile of the archive: mode, filelist, NameToInfo
    prev,       \* the call made before the last one
    procs,      \* concurrent setContent: where each writer and the reader stands
    origin,     \* segmentsFrom: the ancestor the child() steps started from
    handles,    \* the file objects open() returned and their buffers
    statinfo,   \* the stat snapshot the FilePath value cur caches
    childmap,   \* the ZipArchive's index: directory prefix -> child names
    iso         \* the optical image: its directory extents and the ISO's _dirs

\* what the calls on path values leave alone, and what the walk leaves alone
later == <<origin, handles, statinfo, childmap, iso>>
notNav == <<disk, stack, yielded, wstatus, mem, zip, prev, procs, later>>
notWalk == <<cur, last, repo, zip, prev, procs, later>>
notIo == <<repo, stack, yielded, wstatus, procs, later>>
notConc == <<last, repo, stack, yielded, wstatus, mem, zip, prev, later>>
vars == <<cur, last, repo, disk, stack, yielded, wstatus, mem, zip, prev, procs, later>>

---------------------------------------------------------------------------
(* Bounds of the model *)

\* longest child name handed to child()
MaxNameLen == 3
\* longest fragment handed to preauthChild()
MaxFragLen == 5
\* longest string handed to the FilePath constructor
MaxPathLen == 3
\* child() steps taken from a constructed path
MaxDepth == 2
\* files, directories and links created below the directory that is walked
MaxNodes == 3

---------------------------------------------------------------------------
(* Strings *)

SEP == "/"
DOT == "."
Chars == {"a", DOT, SEP}

RECURSIVE StrOfLen(_)
StrOfLen(n) ==
    IF n = 0 THEN {<<>>}
    ELSE {Append(s, c) : s \in StrOfLen(n - 1), c \in Chars}

StrUpTo(n) == UNION {StrOfLen(k) : k \in 0..n}

startswith(s, prefix) ==
    /\ Len(prefix) <= Len(s)
    /\ SubSeq(s, 1, Len(prefix)) = prefix

endswith(s, suffix) ==
    /\ Len(suffix) <= Len(s)
    /\ SubSeq(s, Len(s) - Len(suffix) + 1, Len(s)) = suffix

contains(s, c) == \E i \in 1..Len(s) : s[i] = c

\* str.rfind(c) + 1: the 1-based index of the last c in s, 0 when there is none
rfind1(s, c) ==
    IF contains(s, c)
    THEN CHOOSE i \in 1..Len(s) : s[i] = c /\ \A j \in (i + 1)..Len(s) : s[j] # c
    ELSE 0

\* str.find(c) + 1
find1(s, c) ==
    IF contains(s, c)
    THEN CHOOSE i \in 1..Len(s) : s[i] = c /\ \A j \in 1..(i - 1) : s[j] # c
    ELSE 0

\* str.split(c): the pieces between the occurrences of c, empty pieces kept
RECURSIVE split(_, _)
split(s, c) ==
    LET i == find1(s, c)
    IN  IF i = 0 THEN <<s>>
        ELSE <<SubSeq(s, 1, i - 1)>> \o split(SubSeq(s, i + 1, Len(s)), c)

\* c.join(parts)
RECURSIVE join(_, _)
join(parts, c) ==
    IF Len(parts) = 0 THEN <<>>
    ELSE IF Len(parts) = 1 THEN parts[1]
    ELSE parts[1] \o <<c>> \o join(Tail(parts), c)

\* str.rstrip(c)
RECURSIVE rstrip(_, _)
rstrip(s, c) ==
    IF Len(s) > 0 /\ s[Len(s)] = c THEN rstrip(SubSeq(s, 1, Len(s) - 1), c) ELSE s

allSlashes(s) == \A i \in 1..Len(s) : s[i] = SEP

---------------------------------------------------------------------------
(* os.path on a POSIX platform, as imported by bp/filepath.py *)

\* the process's working directory, which abspath() joins relative paths to
CWD == <<SEP, "a">>

isabs(s) == startswith(s, <<SEP>>)

\* os.path.join(a, b)
joinpath(a, b) ==
    IF startswith(b, <<SEP>>) THEN b
    ELSE IF Len(a) = 0 \/ endswith(a, <<SEP>>) THEN a \o b
    ELSE a \o <<SEP>> \o b

\* the loop of os.path.normpath over the components
RECURSIVE normComps(_, _, _)
normComps(comps, new, initial) ==
    IF Len(comps) = 0 THEN new
    ELSE
        LET comp == Head(comps)
            rest == Tail(comps)
        IN  IF comp = <<>> \/ comp = <<DOT>> THEN normComps(rest, new, initial)
            ELSE IF \/ comp # <<DOT, DOT>>
                    \/ (initial = 0 /\ Len(new) = 0)
                    \/ (Len(new) > 0 /\ new[Len(new)] = <<DOT, DOT>>)
                 THEN normComps(rest, Append(new, comp), initial)
            ELSE IF Len(new) > 0
                 THEN normComps(rest, SubSeq(new, 1, Len(new) - 1), initial)
            ELSE normComps(rest, new, initial)

\* os.path.normpath(path)
normpath(path) ==
    IF Len(path) = 0 THEN <<DOT>>
    ELSE
        LET initial ==
                IF ~startswith(path, <<SEP>>) THEN 0
                ELSE IF startswith(path, <<SEP, SEP>>) /\ ~startswith(path, <<SEP, SEP, SEP>>)
                     THEN 2
                ELSE 1
            comps == normComps(split(path, SEP), <<>>, initial)
            body == join(comps, SEP)
            out == [i \in 1..initial |-> SEP] \o body
        IN  IF Len(out) = 0 THEN <<DOT>> ELSE out

\* os.path.abspath(path)
abspath(path) ==
    IF isabs(path) THEN normpath(path) ELSE normpath(joinpath(CWD, path))

\* os.path.dirname(p)
dirname(p) ==
    LET head == SubSeq(p, 1, rfind1(p, SEP))
    IN  IF Len(head) > 0 /\ ~allSlashes(head) THEN rstrip(head, SEP) ELSE head

\* os.path.basename(p)
basename(p) == SubSeq(p, rfind1(p, SEP) + 1, Len(p))

---------------------------------------------------------------------------
(* Path values and call results *)

\* Python's None
Null == [cls |-> "None", path |-> <<>>]

\* a call that returned v, and a call that raised the exception e
Ret(v) == [ok |-> TRUE, val |-> v, err |-> ""]
Raise(e) == [ok |-> FALSE, val |-> Null, err |-> e]

NoCall == [op |-> "none", self |-> Null, arg |-> <<>>, ret |-> Ret(Null)]

\* no ancestor chosen and no child() step taken from one
NoOrigin == [anc |-> Null, start |-> Null, names |-> <<>>]

\* FilePath.statinfo before the first stat: None
NoStat == [known |-> FALSE, exists |-> FALSE, kind |-> "", size |-> 0]

\* no image opened: no extent, and ISO._dirs empty
NoIso == [extents |-> <<>>, dirs |-> <<>>]

---------------------------------------------------------------------------
(* bp/filepath.py: FilePath on a POSIX platform (isWindows is False) *)

\* FilePath.__init__ (and clonePath, which is FilePath itself)
FilePath(path) == [cls |-> "FilePath", path |-> abspath(path)]

\* FilePath.child without the newpath == self.path test
FilePath_child_noSelfTest(self, path) ==
    IF contains(path, SEP) THEN Raise("InsecurePath")
    ELSE
        LET norm == normpath(path)
            newpath == abspath(joinpath(self.path, norm))
        IN  IF contains(norm, SEP) \/ ~startswith(newpath, self.path)
            THEN Raise("InsecurePath")
            ELSE Ret([cls |-> "FilePath", path |-> abspath(newpath)])

\* FilePath.child
FilePath_child(self, path) ==
    IF contains(path, SEP) THEN Raise("InsecurePath")
    ELSE
        LET norm == normpath(path)
        IN  IF contains(norm, SEP) THEN Raise("InsecurePath")
            ELSE
                LET newpath == abspath(joinpath(self.path, norm))
                IN  IF newpath = self.path \/ ~startswith(newpath, self.path)
                    THEN Raise("InsecurePath")
                    ELSE Ret(FilePath(newpath))

\* FilePath.preauthChild
FilePath_preauthChild(self, path) ==
    LET newpath == abspath(joinpath(self.path, normpath(path)))
    IN  IF ~startswith(newpath, self.path)
        THEN Raise("InsecurePath")
        ELSE Ret(FilePath(newpath))

\* FilePath.dirname and FilePath.parent
FilePath_parent(self) == FilePath(dirname(self.path))

\* FilePath.basename
FilePath_basename(self) == basename(self.path)

---------------------------------------------------------------------------
(* bp/memory.py: MemoryPath; its _path is a tuple of names *)

MemoryPath(path) == [cls |-> "MemoryPath", path |-> path]

\* MemoryPath.parent taking a one-segment path for the root
MemoryPath_parent_offByOne(self) ==
    IF Len(self.path) > 1
    THEN [cls |-> "MemoryPath", path |-> SubSeq(self.path, 1, Len(self.path) - 1)]
    ELSE self

MemoryPath_parent(self) ==
    IF Len(self.path) > 0
    THEN MemoryPath(SubSeq(self.path, 1, Len(self.path) - 1))
    ELSE self

MemoryPath_child(self, name) == MemoryPath(Append(self.path, name))

---------------------------------------------------------------------------
(* bp/iso.py: ISOPath; its _path is a tuple of names *)

ISOPath(path) == [cls |-> "ISOPath", path |-> path]

ISOPath_parent(self) ==
    IF Len(self.path) > 0
    THEN ISOPath(SubSeq(self.path, 1, Len(self.path) - 1))
    ELSE self

ISOPath_child(self, name) == ISOPath(Append(self.path, name))

---------------------------------------------------------------------------
(* bp/zippath.py: ZipPath and ZipArchive; path is pathInArchive *)

ZipPath(pathInArchive) == [cls |-> "ZipPath", path |-> pathInArchive]

\* the archive itself: ZipArchive.__init__ sets pathInArchive to ''
ZipArchive == [cls |-> "ZipArchive", path |-> <<>>]

\* ZipPath.parent, which ZipArchive inherits
ZipPath_parent(self) ==
    LET splitup == split(self.path, SEP)
    IN  IF Len(splitup) = 1 THEN ZipArchive
        ELSE ZipPath(join(SubSeq(splitup, 1, Len(splitup) - 1), SEP))

\* ZipPath.child joining without the separator
ZipPath_child_noSep(self, path) == [cls |-> "ZipPath", path |-> self.path \o path]

\* ZipPath.child
ZipPath_child(self, path) == ZipPath(join(<<self.path, path>>, SEP))

\* ZipArchive.child
ZipArchive_child(self, path) == ZipPath(path)

\* ZipPath.__cmp__: the pair (archive, pathInArchive) decides, the class does not
ZipPath_eq(self, other) == self.path = other.path

---------------------------------------------------------------------------
(* The calls of the capability contract, dispatched on the class *)

IsZip(p) == p.cls \in {"ZipPath", "ZipArchive"}

child(p, name) ==
    CASE p.cls = "FilePath" -> FilePath_child(p, name)
      [] p.cls = "MemoryPath" -> Ret(MemoryPath_child(p, name))
      [] p.cls = "ISOPath" -> Ret(ISOPath_child(p, name))
      [] p.cls = "ZipPath" -> Ret(ZipPath_child(p, name))
      [] p.cls = "ZipArchive" -> Ret(ZipArchive_child(p, name))

parent(p) ==
    CASE p.cls = "FilePath" -> FilePath_parent(p)
      [] p.cls = "MemoryPath" -> MemoryPath_parent(p)
      [] p.cls = "ISOPath" -> ISOPath_parent(p)
      [] IsZip(p) -> ZipPath_parent(p)

\* a == b as the classes define it (__eq__, or __cmp__ under Python 2)
eq(a, b) ==
    IF IsZip(a) /\ IsZip(b) THEN ZipPath_eq(a, b)
    ELSE a.cls = b.cls /\ a.path = b.path

\* the names between the root and p
segments(p) ==
    IF p.cls \in {"MemoryPath", "ISOPath"} THEN p.path
    ELSE IF IsZip(p) /\ p.cls = "ZipArchive" THEN <<>>
    ELSE IF IsZip(p) THEN split(p.path, SEP)
    ELSE SelectSeq(split(p.path, SEP), LAMBDA c : c # <<>>)

---------------------------------------------------------------------------
(* The disk under FilePath: the POSIX calls the code makes (os.stat,       *)
(* os.listdir, os.mkdir, os.symlink, os.path.islink, os.path.realpath).    *)
(* disk.dir maps an absolute path to its entry; a directory's entry keeps  *)
(* the names in it in the order os.listdir returns them.                   *)

NoDisk == [dir |-> <<>>, data |-> <<>>]
NoMem == [store |-> <<>>, dirs |-> {}]
NoZip == [mode |-> "", filelist |-> <<>>, NameToInfo |-> <<>>]

\* an operating-system call failed with e and left the disk as d
Fail(e, d) == [ok |-> FALSE, val |-> d, err |-> e]

DirEntry(names) == [kind |-> "dir", names |-> names, target |-> <<>>, ino |-> 0]
FileEntry(ino) == [kind |-> "file", names |-> <<>>, target |-> <<>>, ino |-> ino]
LinkEntry(target) == [kind |-> "link", names |-> <<>>, target |-> target, ino |-> 0]

\* the entry stored at exactly this path is a symbolic link
lislink(d, path) == path \in DOMAIN d.dir /\ d.dir[path].kind = "link"

\* posixpath._joinrealpath(path, rest, seen): [path, ok, seen]; seen maps a
\* link to its resolved path, or to <<>> (None) while it is being resolved
RECURSIVE joinrealpathLoop(_, _, _, _)

\* the link newpath has been resolved to r, or the resolution met a loop
joinrealpathLinked(d, newpath, more, r) ==
    IF ~r.ok
    THEN [path |-> joinpath(r.path, more), ok |-> FALSE, seen |-> r.seen]
    ELSE joinrealpathLoop(d, r.path, more, (newpath :> r.path) @@ r.seen)

\* the name after path is newpath, a symbolic link to target
joinrealpathLink(d, path, newpath, target, more, seen) ==
    IF newpath \in DOMAIN seen
    THEN IF seen[newpath] # <<>>
         THEN joinrealpathLoop(d, seen[newpath], more, seen)
         ELSE [path |-> joinpath(newpath, more), ok |-> FALSE, seen |-> seen]
    ELSE joinrealpathLinked(d, newpath, more,
             joinrealpathLoop(d, IF isabs(target) THEN <<SEP>> ELSE path,
                              IF isabs(target) THEN Tail(target) ELSE target,
                              (newpath :> <<>>) @@ seen))

\* one name of rest, with more names after it
joinrealpathName(d, path, name, newpath, more, seen) ==
    IF name = <<>> \/ name = <<DOT>> THEN joinrealpathLoop(d, path, more, seen)
    ELSE IF name = <<DOT, DOT>> THEN joinrealpathLoop(d, dirname(path), more, seen)
    ELSE IF ~lislink(d, newpath) THEN joinrealpathLoop(d, newpath, more, seen)
    ELSE joinrealpathLink(d, path, newpath, d.dir[newpath].target, more, seen)

\* the name before the first separator at i (0: no separator) of rest
joinrealpathSplit(d, path, rest, i, seen) ==
    IF i = 0
    THEN joinrealpathName(d, path, rest, joinpath(path, rest), <<>>, seen)
    ELSE joinrealpathName(d, path, SubSeq(rest, 1, i - 1),
                          joinpath(path, SubSeq(rest, 1, i - 1)),
                          SubSeq(rest, i + 1, Len(rest)), seen)

\* the loop over the names in rest
joinrealpathLoop(d, path, rest, seen) ==
    IF rest = <<>> THEN [path |-> path, ok |-> TRUE, seen |-> seen]
    ELSE joinrealpathSplit(d, path, rest, find1(rest, SEP), seen)

joinrealpath(d, path, rest, seen) ==
    IF isabs(rest)
    THEN joinrealpathLoop(d, <<SEP>>, Tail(rest), seen)
    ELSE joinrealpathLoop(d, path, rest, seen)

\* os.path.realpath(filename)
realpath(d, filename) == abspath(joinrealpath(d, <<>>, filename, <<>>).path)

\* the path r resolved to plus name, <<>> when it did not resolve
keyUnder(r, name) == IF r.ok THEN joinpath(r.path, name) ELSE <<>>

\* the key of the entry lstat(path) reads: links in the directory part are
\* followed, the last name is not; <<>> when the directory part does not resolve
lstatKey(d, path) ==
    IF allSlashes(path) THEN path
    ELSE keyUnder(joinrealpath(d, <<>>, dirname(path), <<>>), basename(path))

\* the path r resolved to when it is an entry of the disk, <<>> otherwise
keyAt(d, r) == IF r.ok /\ r.path \in DOMAIN d.dir THEN r.path ELSE <<>>

\* the key of the entry stat(path) reads, every link followed; <<>> when
\* there is none (ENOENT, ELOOP)
statKey(d, path) == keyAt(d, joinrealpath(d, <<>>, path, <<>>))

\* os.path.islink(path)
os_islink(d, path) == lislink(d, lstatKey(d, path))

\* key names nothing yet, in an existing directory
freeKey(d, key) ==
    /\ key # <<>>
    /\ key \notin DOMAIN d.dir
    /\ dirname(key) \in DOMAIN d.dir
    /\ d.dir[dirname(key)].kind = "dir"

\* there is a directory to create path in, and nothing at path yet
canCreate(d, path) == freeKey(d, lstatKey(d, path))

\* the entry e appears at key, last in its directory's listing
addAt(d, key, e) ==
    [d EXCEPT !.dir = (key :> e) @@
                [d.dir EXCEPT ![dirname(key)] =
                    DirEntry(Append(d.dir[dirname(key)].names, basename(key)))]]

\* os.mkdir(path)
os_mkdir(d, path) ==
    IF canCreate(d, path) THEN Ret(addAt(d, lstatKey(d, path), DirEntry(<<>>))) ELSE Raise("OSError")

\* os.symlink(target, path)
os_symlink(d, target, path) ==
    IF canCreate(d, path) THEN Ret(addAt(d, lstatKey(d, path), LinkEntry(target))) ELSE Raise("OSError")

\* the names listed under key
namesAt(d, key) ==
    IF key # <<>> /\ d.dir[key].kind = "dir" THEN Ret(d.dir[key].names)
    ELSE Raise("OSError")

\* os.listdir(path)
os_listdir(d, path) == namesAt(d, statKey(d, path))

\* the smallest inode number that is free
freeIno(d) ==
    CHOOSE n \in 1..(Cardinality(DOMAIN d.data) + 1) :
        n \notin DOMAIN d.data /\ \A k \in 1..(n - 1) : k \in DOMAIN d.data

\* a new empty file on inode ino at key
newFile(d, key, ino) ==
    [disk |-> [addAt(d, key, FileEntry(ino)) EXCEPT !.data = (ino :> <<>>) @@ d.data],
     fd |-> ino]

\* an open that reuses a temporary file that is already there, emptied
os_open_trunc(d, path) ==
    IF canCreate(d, path) THEN Ret(newFile(d, lstatKey(d, path), freeIno(d)))
    ELSE IF lstatKey(d, path) \in DOMAIN d.dir /\ d.dir[lstatKey(d, path)].kind = "file"
    THEN Ret([disk |-> [d EXCEPT !.data[d.dir[lstatKey(d, path)].ino] = <<>>],
              fd |-> d.dir[lstatKey(d, path)].ino])
    ELSE Fail("OSError", d)

\* os.open(path, O_EXCL | O_CREAT | O_RDWR): the new disk and the descriptor
os_open_excl(d, path) ==
    IF canCreate(d, path) THEN Ret(newFile(d, lstatKey(d, path), freeIno(d)))
    ELSE Fail("OSError", d)

\* write(fd, bytes): the bytes go to the end of the file
os_write(d, fd, bytes) == [d EXCEPT !.data[fd] = @ \o bytes]

\* the names of the directory k once from has left it and to has come
namesAfter(d, k, from, to) ==
    IF k = dirname(to) /\ to \notin DOMAIN d.dir
    THEN Append(IF k = dirname(from) THEN SelectSeq(d.dir[k].names, LAMBDA y : y # basename(from))
                ELSE d.dir[k].names, basename(to))
    ELSE IF k = dirname(from) THEN SelectSeq(d.dir[k].names, LAMBDA y : y # basename(from))
    ELSE d.dir[k].names

\* the entry at the key from, and all below it, moves to the key to, which
\* is free, a file, a link or an empty directory
moveKey(d, from, to) ==
    [d EXCEPT !.dir =
        [k \in ({x \in DOMAIN d.dir : x # from /\ ~startswith(x, from \o <<SEP>>)}
                \cup {to \o SubSeq(x, Len(from) + 1, Len(x)) :
                        x \in {y \in DOMAIN d.dir : y = from \/ startswith(y, from \o <<SEP>>)}})
            |-> IF k = to \/ startswith(k, to \o <<SEP>>)
                THEN d.dir[from \o SubSeq(k, Len(to) + 1, Len(k))]
                ELSE IF d.dir[k].kind = "dir" THEN DirEntry(namesAfter(d, k, from, to))
                ELSE d.dir[k]]]

\* rename between the keys from and to
renameKeys(d, from, to) ==
    IF \/ from \notin DOMAIN d.dir
       \/ to = <<>>
       \/ dirname(to) \notin DOMAIN d.dir
       \/ d.dir[dirname(to)].kind # "dir"
       \/ (to \in DOMAIN d.dir /\ d.dir[to].kind = "dir" /\ d.dir[from].kind # "dir")
       \/ (to \in DOMAIN d.dir /\ d.dir[to].kind # "dir" /\ d.dir[from].kind = "dir")
       \/ (to \in DOMAIN d.dir /\ d.dir[to].kind = "dir" /\ d.dir[to].names # <<>>)
       \/ startswith(to, from \o <<SEP>>)
    THEN Fail("OSError", d)
    ELSE IF from = to THEN Ret(d)
    ELSE Ret(moveKey(d, from, to))

\* os.rename(src, dst): one step, the name dst goes from its old file to the new
os_rename(d, src, dst) == renameKeys(d, lstatKey(d, src), lstatKey(d, dst))

\* the inode behind the key of a regular file
inoAt(d, key) ==
    IF key # <<>> /\ d.dir[key].kind = "file" THEN Ret(d.dir[key].ino)
    ELSE Raise("IOError")

\* open(path, 'rb'): the inode the descriptor reads
os_open(d, path) == inoAt(d, statKey(d, path))

\* the inodes no name and no descriptor in pinned refers to are freed
reclaim(d, pinned) ==
    [d EXCEPT !.data =
        [n \in {k \in DOMAIN d.data :
                    k \in pinned \/ \E key \in DOMAIN d.dir :
                                        d.dir[key].kind = "file" /\ d.dir[key].ino = k}
            |-> d.data[n]]]

---------------------------------------------------------------------------
(* bp/filepath.py: the FilePath calls that read the disk *)

\* FilePath.islink
FilePath_islink(d, self) == os_islink(d, self.path)

\* the entry at key is a directory
isdirAt(d, key) == key # <<>> /\ d.dir[key].kind = "dir"

\* FilePath.isdir on a value with no cached statinfo: restat(False), then S_ISDIR
FilePath_isdir(d, self) == isdirAt(d, statKey(d, self.path))

\* an OSError from os.listdir becomes UnlistableError
unlistable(r) == IF r.ok THEN r ELSE Raise("UnlistableError")

\* FilePath.listdir
FilePath_listdir(d, self) == unlistable(os_listdir(d, self.path))

\* a realpath that hands a cyclical link back instead of raising LinkError
realpathResult_noCycle(d, self, result) ==
    IF result = self.path THEN Ret(self) ELSE Ret(FilePath(result))

\* FilePath.realpath after result = os.path.realpath(self.path)
realpathResult(d, self, result) ==
    IF result = self.path
    THEN IF FilePath_islink(d, self) THEN Raise("LinkError") ELSE Ret(self)
    ELSE Ret(FilePath(result))

\* FilePath.realpath
FilePath_realpath(d, self) == realpathResult(d, self, realpath(d, self.path))

\* FilePath.create
FilePath_create(d, self) == os_open_excl(d, self.path)

\* FilePath.createDirectory
FilePath_createDirectory(d, self) == os_mkdir(d, self.path)

\* FilePath.linkTo: os.symlink(self.path, linkFilePath.path)
FilePath_linkTo(d, self, linkFilePath) == os_symlink(d, self.path, linkFilePath.path)

---------------------------------------------------------------------------
(* bp/memory.py: the MemoryPath calls that read and write the MemoryFS *)

\* MemoryPath.isdir
MemoryPath_isdir(m, self) == self.path \in m.dirs

\* MemoryPath.createDirectory
MemoryPath_createDirectory(m, self) == [m EXCEPT !.dirs = @ \cup {self.path}]

\* MemoryPath.setContent
MemoryPath_setContent(m, self, content) ==
    [m EXCEPT !.store = (self.path :> content) @@ m.store]

\* MemoryPath.getContent
MemoryPath_getContent(m, self) ==
    IF self.path \in DOMAIN m.store THEN Ret(m.store[self.path]) ELSE Raise("KeyError")

\* the elements of a set or the keys of a dict in the order iteration meets them
RECURSIVE iterate(_)
iterate(S) ==
    IF S = {} THEN <<>>
    ELSE <<CHOOSE x \in S : TRUE>> \o iterate(S \ {CHOOSE x \in S : TRUE})

\* [t[-1] for t in i]
lastOfEach(ts) == [i \in 1..Len(ts) |-> ts[i][Len(ts[i])]]

\* MemoryPath.listdir, over chain(self._fs._dirs, self._fs._store.iterkeys())
MemoryPath_listdir_as(m, self) ==
    IF self.path \notin m.dirs THEN Raise("UnlistableError")
    ELSE Ret(lastOfEach(SelectSeq(iterate(DOMAIN m.store),
                LAMBDA t : /\ Len(t) = Len(self.path) + 1
                           /\ SubSeq(t, 1, Len(t) - 1) = self.path)))
MemoryPath_listdir(m, self) ==
    IF self.path \notin m.dirs THEN Raise("UnlistableError")
    ELSE Ret(lastOfEach(SelectSeq(iterate(m.dirs) \o iterate(DOMAIN m.store),
                LAMBDA t : /\ Len(t) = Len(self.path) + 1
                           /\ SubSeq(t, 1, Len(t) - 1) = self.path)))

---------------------------------------------------------------------------
(* The calls of the path interface that genericWalk makes, on a disk path *)
(* or a memory path; fs holds the disk and the MemoryFS.                  *)

Fs(d, m) == [disk |-> d, mem |-> m]

\* path.isdir()
path_isdir(fs, path) ==
    IF path.cls = "MemoryPath" THEN MemoryPath_isdir(fs.mem, path)
    ELSE FilePath_isdir(fs.disk, path)

\* path.listdir()
path_listdir(fs, path) ==
    IF path.cls = "MemoryPath" THEN MemoryPath_listdir(fs.mem, path)
    ELSE FilePath_listdir(fs.disk, path)

\* path.realpath(): a MemoryPath is its own realpath
path_realpath(fs, path) ==
    IF path.cls = "MemoryPath" THEN Ret(path) ELSE FilePath_realpath(fs.disk, path)

---------------------------------------------------------------------------
(* bp/generic.py *)

\* genericParents: the ancestors of path, nearest first, the root last
RECURSIVE genericParents(_)
parentsFrom(path, up) == IF eq(path, up) THEN <<>> ELSE <<up>> \o genericParents(up)

genericParents(path) == parentsFrom(path, parent(path))

\* path.child(name) for each name, in the order of names
childrenOf(path, names) ==
    IF ~names.ok THEN names
    ELSE Ret([i \in 1..Len(names.val) |-> child(path, names.val[i]).val])

\* genericChildren: map(path.child, path.listdir())
genericChildren(fs, path) == childrenOf(path, path_listdir(fs, path))

\* one suspended genericWalk(path): at "start" it has yet to yield path, at
\* "body" it is about to test path.isdir(), at "loop" it iterates children()
Frame(path) == [path |-> path, at |-> "start", kids |-> <<>>]

RECURSIVE resume(_, _)

\* a walk that takes the children of a directory last name first
resumeFrame_lastFirst(fs, outer, f, isdir, cs) ==
    IF f.at = "start"
    THEN [stack |-> Append(outer, [f EXCEPT !.at = "body"]), res |-> Ret(f.path)]
    ELSE IF f.at = "body"
    THEN IF isdir /\ cs.ok
         THEN resume(fs, Append(outer, [f EXCEPT !.at = "loop", !.kids = cs.val]))
         ELSE resume(fs, outer)
    ELSE IF Len(f.kids) = 0 THEN resume(fs, outer)
    ELSE resume(fs, outer \o <<[f EXCEPT !.kids = SubSeq(f.kids, 1, Len(f.kids) - 1)],
                               Frame(f.kids[Len(f.kids)])>>)

\* the generator f, innermost inside the generators outer, runs on
resumeFrame(fs, outer, f, isdir, cs) ==
    IF f.at = "start"
    THEN [stack |-> Append(outer, [f EXCEPT !.at = "body"]), res |-> Ret(f.path)]
    ELSE IF f.at = "body"
    THEN IF isdir
         THEN IF cs.ok
              THEN resume(fs, Append(outer, [f EXCEPT !.at = "loop", !.kids = cs.val]))
              ELSE [stack |-> <<>>, res |-> cs]
         ELSE resume(fs, outer)
    ELSE IF Len(f.kids) = 0 THEN resume(fs, outer)
    ELSE resume(fs, outer \o <<[f EXCEPT !.kids = Tail(f.kids)], Frame(Head(f.kids))>>)

\* resume the innermost generator until one yields (Ret) or the outermost
\* one returns (StopIteration)
resume(fs, stk) ==
    IF Len(stk) = 0 THEN [stack |-> stk, res |-> Raise("StopIteration")]
    ELSE resumeFrame(fs, SubSeq(stk, 1, Len(stk) - 1), stk[Len(stk)],
                     path_isdir(fs, stk[Len(stk)].path),
                     genericChildren(fs, stk[Len(stk)].path))

\* path is one of paths
inParents(path, paths) == \E i \in 1..Len(paths) : eq(path, paths[i])

\* the test genericWalk makes on rsubc and rself
linkTest(subc, rsubc, rself) ==
    IF ~rsubc.ok THEN rsubc
    ELSE IF ~rself.ok THEN rself
    ELSE IF eq(rsubc.val, rself.val) \/ inParents(rsubc.val, genericParents(rself.val))
         THEN Raise("LinkError")
    ELSE Ret(subc)

\* the symlink-loop check genericWalk(path) makes on a path subc that the
\* walk of one of its children yields
loopCheck(fs, path, subc) ==
    linkTest(subc, path_realpath(fs, subc), path_realpath(fs, path))

\* the generators of r.stack around the innermost one check the path it
\* yielded, innermost first, and yield it on
yieldThrough(fs, r) ==
    IF ~r.res.ok THEN r
    ELSE IF \A j \in 1..(Len(r.stack) - 1) : loopCheck(fs, r.stack[j].path, r.res.val).ok
    THEN r
    ELSE [stack |-> <<>>, res |-> Raise("LinkError")]

\* next() on genericWalk(root): the innermost generator runs to its next
\* yield, and every generator around it checks the path and yields it on
genericWalk_next(fs, stk) == yieldThrough(fs, resume(fs, stk))

---------------------------------------------------------------------------
(* Walking a directory tree: the tree is built below one directory, on disk *)
(* with createDirectory, create and linkTo, in memory with createDirectory  *)
(* and setContent; then walk() is iterated to its end.                      *)

\* no ancestor chosen, no file object open, nothing cached, no archive index,
\* no image
LaterOff ==
    /\ origin = NoOrigin
    /\ handles = <<>>
    /\ statinfo = NoStat
    /\ childmap = <<>>
    /\ iso = NoIso

\* no walk is under way
WalkOff == stack = <<>> /\ yielded = <<>> /\ wstatus = "idle" /\ LaterOff

\* no archive, no earlier call, no concurrent process
IoOff == zip = NoZip /\ prev = NoCall /\ procs = <<>>

\* no memory filesystem either
IoIdle == mem = NoMem /\ IoOff

WalkIdle == disk = NoDisk /\ WalkOff /\ IoIdle

WalkNames == {<<"a">>, <<"b">>}

\* the directory that is walked on disk
WalkRoot == FilePath(<<SEP, "w">>)

\* a disk with nothing but the walked directory
EmptyRoot ==
    [dir |-> (<<SEP>> :> DirEntry(<<<<"w">>>>)) @@ (WalkRoot.path :> DirEntry(<<>>)),
     data |-> <<>>]

\* the entries below the walked directory
below(d) == {k \in DOMAIN d.dir : startswith(k, WalkRoot.path \o <<SEP>>)}

\* the directories on disk a new entry is made in
realDirs(d) == {k \in below(d) \cup {WalkRoot.path} : d.dir[k].kind = "dir"}

\* the paths a new entry is made under: the walked directory and the
\* directories made so far
makeUnder ==
    IF cur.cls = "MemoryPath" THEN {cur} \cup {MemoryPath(k) : k \in mem.dirs}
    ELSE {FilePath(k) : k \in realDirs(disk)}

\* the number of entries made so far
made ==
    IF cur.cls = "MemoryPath"
    THEN Cardinality(mem.dirs \ {cur.path}) + Cardinality(DOMAIN mem.store)
    ELSE Cardinality(below(disk))

WalkInit ==
    /\ cur \in {WalkRoot, MemoryPath(<<>>)}
    /\ disk = IF cur.cls = "FilePath" THEN EmptyRoot ELSE NoDisk
    /\ mem = NoMem
    /\ stack = <<>>
    /\ yielded = <<>>
    /\ wstatus = "setup"
    /\ last = NoCall
    /\ repo = Null
    /\ IoOff
    /\ LaterOff

\* path.createDirectory()
FsCreateDirectory(path) ==
    /\ wstatus = "setup"
    /\ made < MaxNodes
    /\ \/ /\ path.cls = "FilePath"
          /\ FilePath_createDirectory(disk, path).ok
          /\ disk' = FilePath_createDirectory(disk, path).val
          /\ mem' = mem
       \/ /\ path.cls = "MemoryPath"
          /\ mem' = MemoryPath_createDirectory(mem, path)
          /\ disk' = disk
    /\ UNCHANGED <<stack, yielded, wstatus, notWalk>>

\* an empty file: path.create().close() on disk, path.setContent(b"") in memory
FsCreate(path) ==
    /\ wstatus = "setup"
    /\ made < MaxNodes
    /\ \/ /\ path.cls = "FilePath"
          /\ FilePath_create(disk, path).ok
          /\ disk' = FilePath_create(disk, path).val.disk
          /\ mem' = mem
       \/ /\ path.cls = "MemoryPath"
          /\ mem' = MemoryPath_setContent(mem, path, <<>>)
          /\ disk' = disk
    /\ UNCHANGED <<stack, yielded, wstatus, notWalk>>

\* FilePath(target).linkTo(path)
FsLinkTo(target, path) ==
    /\ wstatus = "setup"
    /\ made < MaxNodes
    /\ path.cls = "FilePath"
    /\ FilePath_linkTo(disk, FilePath(target), path).ok
    /\ disk' = FilePath_linkTo(disk, FilePath(target), path).val
    /\ UNCHANGED <<mem, stack, yielded, wstatus, notWalk>>

\* it = cur.walk()
WalkStart ==
    /\ wstatus = "setup"
    /\ stack' = <<Frame(cur)>>
    /\ wstatus' = "running"
    /\ UNCHANGED <<disk, mem, yielded, notWalk>>

\* next(it) returned or raised r
walkResult(r) ==
    /\ stack' = r.stack
    /\ yielded' = IF r.res.ok THEN Append(yielded, r.res.val.path) ELSE yielded
    /\ wstatus' = IF r.res.ok THEN "running"
                  ELSE IF r.res.err = "StopIteration" THEN "done"
                  ELSE r.res.err

\* next(it)
WalkNext ==
    /\ wstatus = "running"
    /\ walkResult(genericWalk_next(Fs(disk, mem), stack))
    /\ UNCHANGED <<disk, mem, notWalk>>

WalkNextStep ==
    \/ \E where \in makeUnder, name \in WalkNames : FsCreateDirectory(child(where, name).val)
    \/ FsCreateDirectory(cur)
    \/ \E where \in makeUnder, name \in WalkNames : FsCreate(child(where, name).val)
    \/ \E where \in makeUnder, name \in WalkNames :
           \E target \in DOMAIN disk.dir \cup {child(where, name).val.path} :
               FsLinkTo(target, child(where, name).val)
    \/ WalkStart
    \/ WalkNext

SpecWalk == WalkInit /\ [][WalkNextStep]_vars

---------------------------------------------------------------------------
(* Claims about walk() *)

\* no entry of the disk is a symbolic link
NoLinks(d) == \A k \in DOMAIN d.dir : d.dir[k].kind # "link"

\* the walked directory is in memory
InMemory == cur.cls = "MemoryPath"

\* the entries under the walked directory
treeNodes ==
    IF InMemory THEN (mem.dirs \cup DOMAIN mem.store) \ {cur.path} ELSE below(disk)

\* the path an entry lies in
treeParent(k) == IF InMemory THEN SubSeq(k, 1, Len(k) - 1) ELSE dirname(k)

\* the entry is a directory
treeIsDir(k) == IF InMemory THEN k \in mem.dirs ELSE disk.dir[k].kind = "dir"

\* what listdir() returns on a directory of the tree
treeNames(k) ==
    IF InMemory THEN MemoryPath_listdir(mem, MemoryPath(k)).val ELSE disk.dir[k].names

\* the path of the entry called name in the directory k
treeChild(k, name) == IF InMemory THEN Append(k, name) ELSE joinpath(k, name)

\* what is under the walked path is a tree without symbolic links: on disk
\* no entry is a link; in memory every entry lies in a directory and no path
\* is at once a directory and a file
IsTree ==
    IF InMemory
    THEN /\ mem.dirs \cap DOMAIN mem.store = {}
         /\ \A k \in treeNodes : treeParent(k) \in mem.dirs
    ELSE NoLinks(disk)

\* the pre-order listing of the tree at path, children in listing order
RECURSIVE preorderOf(_)
RECURSIVE preorderAll(_, _)
preorderOf(path) ==
    <<path>> \o (IF treeIsDir(path) THEN preorderAll(path, treeNames(path)) ELSE <<>>)

preorderAll(path, names) ==
    IF names = <<>> THEN <<>>
    ELSE preorderOf(treeChild(path, Head(names))) \o preorderAll(path, Tail(names))

\* the position of path in the yielded paths, 0 when it was not yielded
yieldedAt(path) ==
    IF \E i \in 1..Len(yielded) : yielded[i] = path
    THEN CHOOSE i \in 1..Len(yielded) : yielded[i] = path
    ELSE 0

\* C9: on a disk tree or a memory tree with no symbolic links walk(p) ends
\* without an error, having yielded p and every descendant of p exactly once,
\* each path before its own descendants and the children of a directory in
\* listdir() order, depth first; while it runs it has yielded the start of
\* that listing.
C9_WalkPreorder ==
    (wstatus \notin {"idle", "setup"} /\ IsTree) =>
        /\ wstatus \in {"running", "done"}
        /\ Len(yielded) <= Len(preorderOf(cur.path))
        /\ yielded = SubSeq(preorderOf(cur.path), 1, Len(yielded))
        /\ wstatus = "done" =>
            /\ Len(yielded) = Cardinality(treeNodes) + 1
            /\ \A k \in treeNodes \cup {cur.path} : yieldedAt(k) > 0
            /\ \A k \in treeNodes : yieldedAt(treeParent(k)) < yieldedAt(k)
            /\ \A k \in treeNodes \cup {cur.path} :
                   treeIsDir(k) =>
                       \A i, j \in 1..Len(treeNames(k)) :
                           i < j => yieldedAt(treeChild(k, treeNames(k)[i]))
                                        < yieldedAt(treeChild(k, treeNames(k)[j]))

\* a finished walk of a link-free disk tree with a nested directory, whose
\* top directory lists "b" before "a"
C9_Witness ==
    /\ wstatus = "done"
    /\ ~InMemory
    /\ IsTree
    /\ disk.dir[WalkRoot.path].names = <<<<"b">>, <<"a">>>>
    /\ \E k \in below(disk) : dirname(k) # WalkRoot.path
    /\ Len(yielded) = 4

\* the paths walk can reach from path by listing directories, at most depth deep
RECURSIVE logicalPaths(_, _, _)
logicalPaths(d, path, depth) ==
    {path} \cup
    (IF depth > 0 /\ FilePath_isdir(d, FilePath(path))
     THEN UNION {logicalPaths(d, joinpath(path, os_listdir(d, path).val[i]), depth - 1) :
                    i \in 1..Len(os_listdir(d, path).val)}
     ELSE {})

\* the proper prefixes of an absolute path that are paths: its ancestors
ancestorsOf(path) ==
    IF path = <<SEP>> THEN {}
    ELSE {<<SEP>>} \cup {SubSeq(path, 1, i - 1) : i \in {j \in 2..Len(path) : path[j] = SEP}}

\* q is a symbolic link met below the directory dir, and it resolves to
\* itself (a cyclical link), to what dir resolves to, or to an ancestor of that
cycleLink(d, q, dir) ==
    /\ dir \in ancestorsOf(q)
    /\ os_islink(d, q)
    /\ \/ realpath(d, q) = q
       \/ realpath(d, q) = realpath(d, dir)
       \/ realpath(d, q) \in ancestorsOf(realpath(d, dir))

\* the tree under the walked directory holds such a link
HasCycleLink(d) ==
    \E q \in logicalPaths(d, WalkRoot.path, MaxNodes) :
        \E dir \in logicalPaths(d, WalkRoot.path, MaxNodes) : cycleLink(d, q, dir)

\* the paths a walk can yield before a directory repeats on the way down:
\* those no deeper than there are directories
yieldable(d) == logicalPaths(d, WalkRoot.path, Cardinality(realDirs(d)))

\* C10: when the tree under p holds a symbolic link that resolves to a
\* directory walk descends from, to an ancestor of it, or to itself, the
\* walk never ends normally and raises nothing but LinkError, and it cannot
\* go on for ever: the paths it yields are distinct and all among the
\* finitely many paths no deeper than the tree has directories.
C10_CycleRaisesLinkError ==
    (wstatus \notin {"idle", "setup"} /\ HasCycleLink(disk)) =>
        /\ wstatus \in {"running", "LinkError"}
        /\ \A i \in 1..Len(yielded) : yielded[i] \in yieldable(disk)
        /\ \A i, j \in 1..Len(yielded) : yielded[i] = yielded[j] => i = j

\* a walk that yielded paths and then raised LinkError on a link to an
\* ancestor two levels down
C10_Witness ==
    /\ wstatus = "LinkError"
    /\ Len(yielded) >= 2
    /\ \E q \in below(disk) : \E dir \in below(disk) :
           cycleLink(disk, q, dir) /\ realpath(disk, q) # q

---------------------------------------------------------------------------
(* setContent and getContent on the backends that can be written *)

\* the default ext of setContent
defaultExt == <<DOT, "n", "e", "w">>

\* the values _secureEnoughString() is taken to return
Tokens == {<<"s">>, <<"t">>}

Call(op, self, arg, ret) == [op |-> op, self |-> self, arg |-> arg, ret |-> ret]

\* genericSibling: path.parent().child(segment)
genericSibling(path, segment) == child(parent(path), segment)

\* FilePath.temporarySibling, _secureEnoughString() having returned token
FilePath_temporarySibling(self, token, extension) ==
    genericSibling(self, token \o FilePath_basename(self) \o extension)

\* a setContent that writes the sibling and never renames it
setContentRename_noRename(d, fd, sib, self, content) == Ret(os_write(d, fd, content))

\* setContent from f.write(content) on: write, close, os.rename(sib.path, self.path)
setContentRename(d, fd, sib, self, content) ==
    os_rename(os_write(d, fd, content), sib.path, self.path)

\* setContent once sib.open('w') has returned or raised
setContentWrite(created, sib, self, content) ==
    IF ~created.ok THEN created
    ELSE setContentRename(created.val.disk, created.val.fd, sib, self, content)

\* setContent once temporarySibling has returned: sib.open('w') on a path with
\* alwaysCreate set is sib.create()
setContentOpen(d, sib, self, content) ==
    IF ~sib.ok THEN Fail(sib.err, d)
    ELSE setContentWrite(FilePath_create(d, sib.val), sib.val, self, content)

\* FilePath.setContent: the disk it leaves, and whether it raised
FilePath_setContent(d, self, content, token) ==
    setContentOpen(d, FilePath_temporarySibling(self, token, defaultExt), self, content)

\* fp.read() on the descriptor fd, or the error open raised
readAll(d, fd) == IF fd.ok THEN Ret(d.data[fd.val]) ELSE fd

\* FilePath.getContent = genericGetContent: open, read, close
FilePath_getContent(d, self) == readAll(d, os_open(d, self.path))

\* ZipFile.writestr(name, bytes): a new member, the one NameToInfo names from now on
ZipFile_writestr(z, name, bytes) ==
    IF z.mode = "r" THEN Raise("RuntimeError")
    ELSE Ret([z EXCEPT !.filelist = Append(@, [filename |-> name, data |-> bytes]),
                       !.NameToInfo = (name :> (Len(z.filelist) + 1)) @@ @])

\* ZipFile.read(name)
ZipFile_read(z, name) ==
    IF name \in DOMAIN z.NameToInfo THEN Ret(z.filelist[z.NameToInfo[name]].data)
    ELSE Raise("KeyError")

\* ZipPath.setContent
ZipPath_setContent(z, self, content) == ZipFile_writestr(z, self.path, content)

\* ZipPath.getContent
ZipPath_getContent(z, self) == ZipFile_read(z, self.path)

\* the members one archive can come to hold
MaxZipEntries == 2

IoNames == {<<"a">>, <<"b">>}

Contents == {<<>>, <<"x">>, <<"y">>, <<"x", "y">>}

\* the archives a ZipArchive is opened on: a new one, and one with a member
ZipFiles ==
    {[mode |-> "w", filelist |-> <<>>, NameToInfo |-> <<>>]} \cup
    {[mode |-> mode, filelist |-> <<[filename |-> <<"a">>, data |-> <<"x">>]>>,
      NameToInfo |-> (<<"a">> :> 1)] : mode \in {"r", "a"}}

IoInit ==
    /\ cur \in {MemoryPath(<<>>), WalkRoot, ZipArchive}
    /\ disk = IF cur.cls = "FilePath" THEN EmptyRoot ELSE NoDisk
    /\ mem = NoMem
    /\ zip \in IF IsZip(cur) THEN ZipFiles ELSE {NoZip}
    /\ last = NoCall
    /\ prev = NoCall
    /\ repo = Null
    /\ procs = <<>>
    /\ WalkOff

\* cur.child(name).setContent(content) in memory
MemSetContent(name, content) ==
    /\ cur.cls = "MemoryPath"
    /\ mem' = MemoryPath_setContent(mem, child(cur, name).val, content)
    /\ prev' = last
    /\ last' = Call("setContent", child(cur, name).val, content, Ret(Null))
    /\ UNCHANGED <<cur, disk, zip, notIo>>

\* cur.child(name).getContent() in memory
MemGetContent(name) ==
    /\ cur.cls = "MemoryPath"
    /\ prev' = last
    /\ last' = Call("getContent", child(cur, name).val, <<>>,
                    MemoryPath_getContent(mem, child(cur, name).val))
    /\ UNCHANGED <<cur, disk, mem, zip, notIo>>

\* cur.child(name).setContent(content) on disk
DiskSetContent(name, content, token) ==
    /\ cur.cls = "FilePath"
    /\ \E r \in {FilePath_setContent(disk, child(cur, name).val, content, token)} :
           /\ disk' = reclaim(r.val, {})
           /\ last' = Call("setContent", child(cur, name).val, content,
                           IF r.ok THEN Ret(Null) ELSE Raise(r.err))
    /\ prev' = last
    /\ UNCHANGED <<cur, mem, zip, notIo>>

\* cur.child(name).getContent() on disk
DiskGetContent(name) ==
    /\ cur.cls = "FilePath"
    /\ prev' = last
    /\ last' = Call("getContent", child(cur, name).val, <<>>,
                    FilePath_getContent(disk, child(cur, name).val))
    /\ UNCHANGED <<cur, disk, mem, zip, notIo>>

\* cur.child(name).setContent(content) in the archive
ZipSetContent(name, content) ==
    /\ IsZip(cur)
    /\ Len(zip.filelist) < MaxZipEntries
    /\ \E r \in {ZipPath_setContent(zip, child(cur, name).val, content)} :
           /\ zip' = IF r.ok THEN r.val ELSE zip
           /\ last' = Call("setContent", child(cur, name).val, content,
                           IF r.ok THEN Ret(Null) ELSE Raise(r.err))
    /\ prev' = last
    /\ UNCHANGED <<cur, disk, mem, notIo>>

\* cur.child(name).getContent() in the archive
ZipGetContent(name) ==
    /\ IsZip(cur)
    /\ prev' = last
    /\ last' = Call("getContent", child(cur, name).val, <<>>,
                    ZipPath_getContent(zip, child(cur, name).val))
    /\ UNCHANGED <<cur, disk, mem, zip, notIo>>

IoNext ==
    \/ \E name \in IoNames, content \in Contents : MemSetContent(name, content)
    \/ \E name \in IoNames : MemGetContent(name)
    \/ \E name \in IoNames, content \in Contents, token \in Tokens :
           DiskSetContent(name, content, token)
    \/ \E name \in IoNames : DiskGetContent(name)
    \/ \E name \in IoNames, content \in Contents : ZipSetContent(name, content)
    \/ \E name \in IoNames : ZipGetContent(name)

SpecIo == IoInit /\ [][IoNext]_vars

\* C4: p.getContent() right after a p.setContent(b) that returned gives b
\* back exactly, in memory, on disk and in an archive open for writing,
\* whatever p held before.
C4_RoundTrip ==
    (last.op = "getContent" /\ prev.op = "setContent" /\ prev.ret.ok /\ prev.self = last.self)
        => (last.ret.ok /\ last.ret.val = prev.arg)

\* the archive holds two members of one name with different bytes, and
\* getContent after the second setContent returned the second
C4_Witness ==
    /\ IsZip(cur)
    /\ Len(zip.filelist) = 2
    /\ zip.filelist[1].filename = zip.filelist[2].filename
    /\ zip.filelist[1].data # zip.filelist[2].data
    /\ last.op = "getContent"
    /\ prev.op = "setContent"
    /\ prev.self = last.self
    /\ last.ret.ok
    /\ last.ret.val = zip.filelist[2].data

---------------------------------------------------------------------------
(* Concurrent setContent: two processes replace the file at one path, each  *)
(* a system call at a time, while a third reads it with getContent.         *)

Writers == {"w1", "w2"}

Reader == "r"

\* what the file holds at first, and what each writer passes to setContent
OldContent == <<"o", "o">>
contentOf == ("w1" :> <<"x", "x">>) @@ ("w2" :> <<"y", "y">>)

\* a process: where it stands, its temporary sibling, its descriptor, and
\* the bytes it has written or read through it
Proc(pc, sib, fd, buf) == [pc |-> pc, sib |-> sib, fd |-> fd, buf |-> buf]

ConcInit ==
    /\ cur = child(WalkRoot, <<"a">>).val
    /\ disk = FilePath_setContent(EmptyRoot, cur, OldContent, <<"s">>).val
    /\ procs = [q \in Writers \cup {Reader} |-> Proc("idle", <<>>, 0, <<>>)]
    /\ last = NoCall
    /\ prev = NoCall
    /\ repo = Null
    /\ mem = NoMem
    /\ zip = NoZip
    /\ WalkOff

\* setContent: sib = self.temporarySibling(ext)
WTemporarySibling(w, token) ==
    /\ procs[w].pc = "idle"
    /\ procs' = [procs EXCEPT ![w] =
                    Proc("named", FilePath_temporarySibling(cur, token, defaultExt).val.path,
                         0, <<>>)]
    /\ UNCHANGED <<cur, disk, notConc>>

\* setContent: f = sib.open('w'), which raises when the sibling exists
WOpen(w) ==
    /\ procs[w].pc = "named"
    /\ \E r \in {FilePath_create(disk, FilePath(procs[w].sib))} :
           /\ disk' = IF r.ok THEN r.val.disk ELSE disk
           /\ procs' = [procs EXCEPT ![w] =
                           IF r.ok THEN Proc("opened", procs[w].sib, r.val.fd, <<>>)
                           ELSE Proc("failed", procs[w].sib, 0, <<>>)]
    /\ UNCHANGED <<cur, notConc>>

\* setContent: f.write(content), one more byte of it reaches the file
WWrite(w) ==
    /\ procs[w].pc = "opened"
    /\ Len(procs[w].buf) < Len(contentOf[w])
    /\ disk' = os_write(disk, procs[w].fd, <<contentOf[w][Len(procs[w].buf) + 1]>>)
    /\ procs' = [procs EXCEPT ![w].buf = Append(@, contentOf[w][Len(procs[w].buf) + 1])]
    /\ UNCHANGED <<cur, notConc>>

\* setContent: f.close(), the bytes not yet written reach the file
WClose(w) ==
    /\ procs[w].pc = "opened"
    /\ disk' = os_write(disk, procs[w].fd,
                        SubSeq(contentOf[w], Len(procs[w].buf) + 1, Len(contentOf[w])))
    /\ procs' = [procs EXCEPT ![w] = Proc("closed", procs[w].sib, 0, contentOf[w])]
    /\ UNCHANGED <<cur, notConc>>

\* setContent: os.rename(sib.path, self.path)
WRename(w) ==
    /\ procs[w].pc = "closed"
    /\ \E r \in {os_rename(disk, procs[w].sib, cur.path)} :
           /\ disk' = r.val
           /\ procs' = [procs EXCEPT ![w].pc = IF r.ok THEN "done" ELSE "failed"]
    /\ UNCHANGED <<cur, notConc>>

\* getContent: fp = path.open()
ROpen ==
    /\ procs[Reader].pc = "idle"
    /\ \E r \in {os_open(disk, cur.path)} :
           procs' = [procs EXCEPT ![Reader] =
                        IF r.ok THEN Proc("reading", <<>>, r.val, <<>>)
                        ELSE Proc("raised", <<>>, 0, <<>>)]
    /\ UNCHANGED <<cur, disk, notConc>>

\* getContent: fp.read() takes one more byte, or meets the end of the file
RRead ==
    /\ procs[Reader].pc = "reading"
    /\ procs' = [procs EXCEPT ![Reader] =
                    IF Len(procs[Reader].buf) < Len(disk.data[procs[Reader].fd])
                    THEN Proc("reading", <<>>, procs[Reader].fd,
                              Append(procs[Reader].buf,
                                     disk.data[procs[Reader].fd][Len(procs[Reader].buf) + 1]))
                    ELSE Proc("got", <<>>, 0, procs[Reader].buf)]
    /\ UNCHANGED <<cur, disk, notConc>>

\* getContent has returned or raised; the reader starts again
RClose ==
    /\ procs[Reader].pc \in {"got", "raised"}
    /\ procs' = [procs EXCEPT ![Reader] = Proc("idle", <<>>, 0, <<>>)]
    /\ UNCHANGED <<cur, disk, notConc>>

ConcNext ==
    \/ \E w \in Writers, token \in Tokens : WTemporarySibling(w, token)
    \/ \E w \in Writers : WOpen(w)
    \/ \E w \in Writers : WWrite(w)
    \/ \E w \in Writers : WClose(w)
    \/ \E w \in Writers : WRename(w)
    \/ ROpen
    \/ RRead
    \/ RClose

SpecConc == ConcInit /\ [][ConcNext]_vars

\* the old content and every writer's content, each complete
Whole == {OldContent} \cup {contentOf[w] : w \in Writers}

\* C3: while processes run setContent on one path, the path always names a
\* file holding the old content or one writer's complete content, a reader's
\* getContent returns one of these and never raises, and once every writer
\* has finished the path holds the content of a writer whose rename succeeded.
C3_AtomicReplace ==
    /\ FilePath_getContent(disk, cur).ok
    /\ FilePath_getContent(disk, cur).val \in Whole
    /\ procs[Reader].pc # "raised"
    /\ procs[Reader].pc = "got" => procs[Reader].buf \in Whole
    /\ (\A w \in Writers : procs[w].pc \in {"done", "failed"}) =>
           \E w \in Writers : /\ procs[w].pc = "done"
                              /\ FilePath_getContent(disk, cur).val = contentOf[w]

\* both writers have renamed, and a reader that opened the file before
\* them has read the old content to its end
C3_Witness ==
    /\ \A w \in Writers : procs[w].pc = "done"
    /\ procs[Reader].pc = "got"
    /\ procs[Reader].buf = OldContent

---------------------------------------------------------------------------
(* Navigation: a caller holding one path value calls child, preauthChild   *)
(* and parent on it, and keeps or drops what the call returns.             *)


Names == StrUpTo(MaxNameLen)
Fragments == StrUpTo(MaxFragLen)

\* the names a caller goes on from (every name is tried; these are kept)
StepNames == {<<"a">>, <<DOT, "a">>, <<"a", "a">>}

NavInit ==
    /\ cur \in {FilePath(s) : s \in StrUpTo(MaxPathLen)}
                \cup {MemoryPath(<<>>), ISOPath(<<>>), ZipArchive}
    /\ last = NoCall
    /\ repo = Null
    /\ WalkIdle

\* cur.child(name)
NavChild(name) ==
    /\ last = NoCall
    /\ last' = [op |-> "child", self |-> cur, arg |-> name, ret |-> child(cur, name)]
    /\ cur' = cur
    /\ UNCHANGED <<repo, notNav>>

\* cur.preauthChild(fragment)
NavPreauthChild(fragment) ==
    /\ last = NoCall
    /\ cur.cls = "FilePath"
    /\ last' = [op |-> "preauthChild", self |-> cur, arg |-> fragment,
                ret |-> FilePath_preauthChild(cur, fragment)]
    /\ cur' = cur
    /\ UNCHANGED <<repo, notNav>>

\* cur.parent()
NavParent ==
    /\ last = NoCall
    /\ last' = [op |-> "parent", self |-> cur, arg |-> <<>>, ret |-> Ret(parent(cur))]
    /\ cur' = cur
    /\ UNCHANGED <<repo, notNav>>

\* the caller goes on with the path the call returned
NavKeep ==
    /\ last # NoCall
    /\ last.ret.ok
    /\ last.op = "child" => last.arg \in StepNames
    /\ last.op = "preauthChild" => eq(last.ret.val, cur)
    /\ Len(segments(last.ret.val)) <= MaxDepth
    /\ cur' = last.ret.val
    /\ last' = NoCall
    /\ UNCHANGED <<repo, notNav>>

\* the caller goes on with the path it held
NavDrop ==
    /\ last # NoCall
    /\ last' = NoCall
    /\ cur' = cur
    /\ UNCHANGED <<repo, notNav>>

NavNext ==
    \/ \E name \in Names : NavChild(name)
    \/ \E fragment \in Fragments : NavPreauthChild(fragment)
    \/ NavParent
    \/ NavKeep
    \/ NavDrop

SpecNav == NavInit /\ [][NavNext]_vars

---------------------------------------------------------------------------
(* Claims about navigation *)

\* the root of a path's namespace; on disk normpath keeps exactly two leading
\* slashes, so '//' is a root beside '/'
IsRoot(p) ==
    IF p.cls = "FilePath" THEN allSlashes(p.path)
    ELSE p.path = <<>>

\* the root above a disk path
diskRoot(p) == IF startswith(p.path, <<SEP, SEP>>) THEN <<SEP, SEP>> ELSE <<SEP>>

isPrefix(s, t) == Len(s) <= Len(t) /\ SubSeq(t, 1, Len(s)) = s

\* p is q or an ancestor of q, by path segment
InSubtree(q, p) ==
    /\ p.cls = "FilePath" => diskRoot(p) = diskRoot(q)
    /\ isPrefix(segments(p), segments(q))

RECURSIVE parentIter(_, _)
parentIter(p, k) == IF k = 0 THEN p ELSE parentIter(parent(p), k - 1)

\* C1: FilePath.child(n) either raises InsecurePath or returns a path strictly
\* inside p whose parent() is p, and it raises whenever n contains the separator
\* or normalises to '.', '..' or the empty name.
C1_ChildContained ==
    (last.op = "child" /\ last.self.cls = "FilePath") =>
        /\ last.ret.ok =>
              /\ InSubtree(last.ret.val, last.self)
              /\ ~eq(last.ret.val, last.self)
              /\ eq(parent(last.ret.val), last.self)
        /\ ~last.ret.ok => last.ret.err = "InsecurePath"
        /\ (\/ contains(last.arg, SEP)
            \/ last.arg = <<>>
            \/ normpath(last.arg) \in {<<DOT>>, <<DOT, DOT>>}) => ~last.ret.ok

C1_Witness ==
    /\ last.op = "child"
    /\ last.self.cls = "FilePath"
    /\ ~IsRoot(last.self)
    /\ last.ret.ok
    /\ contains(last.arg, DOT)

\* C2: FilePath.preauthChild(f), for a relative fragment f, either raises
\* InsecurePath or returns p itself or a path in p's subtree.
C2_PreauthContained ==
    (last.op = "preauthChild" /\ ~isabs(last.arg)) =>
        /\ last.ret.ok => InSubtree(last.ret.val, last.self)
        /\ ~last.ret.ok => last.ret.err = "InsecurePath"

\* C5: the root of every backend is its own parent, and every path reaches the
\* root of its namespace after finitely many parent() steps.
C5_RootFixedPoint ==
    /\ (last.op = "parent" /\ IsRoot(last.self)) => eq(last.ret.val, last.self)
    /\ IsRoot(cur) => eq(parent(cur), cur)
    /\ \E k \in 0..Len(segments(cur)) : IsRoot(parentIter(cur, k))

C5_Witness ==
    /\ last.op = "parent"
    /\ IsRoot(last.self)
    /\ last.self.cls = "ZipArchive"

\* C6: for every path p and every name n without a separator that p.child
\* accepts, p.child(n).parent() == p.
C6_ChildParent ==
    (last.op = "child" /\ ~contains(last.arg, SEP) /\ last.ret.ok) =>
        eq(parent(last.ret.val), last.self)

C6_Witness ==
    /\ last.op = "child"
    /\ last.self.cls = "ZipPath"
    /\ ~contains(last.arg, SEP)
    /\ last.ret.ok

---------------------------------------------------------------------------
(* l/project.py: GitPath and HgPath, wrapping a MemoryPath or a FilePath *)

DotGit == <<DOT, "g", "i", "t">>
DotHg == <<DOT, "h", "g">>

\* self._path == other, where other may be None. MemoryPath.__eq__ reads
\* other._fs, which None does not have; FilePath.__cmp__ answers
\* NotImplemented for a non-FilePath and Python 2 then compares unequal.
path_eq(self, other) ==
    IF self.cls = "MemoryPath"
    THEN IF other.cls = "None" THEN Raise("AttributeError")
         ELSE Ret(other.cls = "MemoryPath" /\ self.path = other.path)
    ELSE Ret(other.cls = self.cls /\ self.path = other.path)

\* GitPath(git_dir=..., path=...); git_dir defaults to None
GitPath(git_dir, path) == [cls |-> "GitPath", dir |-> git_dir, path |-> path]

\* HgPath(hg_dir=..., path=...); HgPath.__init__ replaces a None hg_dir by path
HgPath(hg_dir, path) ==
    [cls |-> "HgPath", dir |-> IF hg_dir = Null THEN path ELSE hg_dir, path |-> path]

\* GitPath.child
GitPath_child(self, name) ==
    LET c == child(self.path, name)
    IN  IF c.ok THEN Ret(GitPath(self.dir, c.val)) ELSE c

\* GitPath.parent
GitPath_parent(self) ==
    LET e == path_eq(self.path, self.dir)
    IN  IF ~e.ok THEN e
        ELSE IF e.val THEN Ret(self)
        ELSE Ret(GitPath(self.dir, parent(self.path)))

\* HgPath.child
HgPath_child(self, name) ==
    LET c == child(self.path, name)
    IN  IF c.ok THEN Ret(HgPath(self.dir, c.val)) ELSE c

\* HgPath.parent
HgPath_parent(self) ==
    LET e == path_eq(self.path, self.dir)
    IN  IF ~e.ok THEN e
        ELSE IF e.val THEN Ret(self)
        ELSE Ret(HgPath(self.dir, parent(self.path)))

vcsChild(v, name) ==
    IF v.cls = "GitPath" THEN GitPath_child(v, name) ELSE HgPath_child(v, name)

vcsParent(v) ==
    IF v.cls = "GitPath" THEN GitPath_parent(v) ELSE HgPath_parent(v)

\* the __eq__ that characteristic's @attributes generates: same class, equal
\* attribute tuples
vcsEq(a, b) == a.cls = b.cls /\ a.dir = b.dir /\ a.path = b.path

\* the values from_path() builds for a directory, and the ones the tests build
\* with no control directory
from_path(path) ==
    {GitPath(child(path, DotGit).val, path), GitPath(Null, path),
     HgPath(child(path, DotHg).val, path), HgPath(Null, path)}

\* the directories a repository is looked for in
RepoDirs ==
    {MemoryPath(<<>>), MemoryPath(<<<<"a">>>>), FilePath(<<SEP, "a">>),
     FilePath(<<SEP, "a", SEP, "a">>)}

VcsNames == {DotGit, DotHg, <<"a">>, <<DOT, DOT>>, <<"a", SEP, "a">>, <<>>}

VcsInit ==
    /\ repo \in UNION {from_path(d) : d \in RepoDirs}
    /\ cur = repo
    /\ last = NoCall
    /\ WalkIdle

\* cur.child(name) on a VCS-backed path
VcsChild(name) ==
    /\ last = NoCall
    /\ last' = [op |-> "child", self |-> cur, arg |-> name, ret |-> vcsChild(cur, name)]
    /\ UNCHANGED <<cur, repo, notNav>>

\* cur.parent() on a VCS-backed path
VcsParent ==
    /\ last = NoCall
    /\ last' = [op |-> "parent", self |-> cur, arg |-> <<>>, ret |-> vcsParent(cur)]
    /\ UNCHANGED <<cur, repo, notNav>>

\* the caller goes on with the path the call returned
VcsKeep ==
    /\ last # NoCall
    /\ last.ret.ok
    /\ Len(segments(last.ret.val.path)) <= Len(segments(repo.path)) + MaxDepth
    /\ cur' = last.ret.val
    /\ last' = NoCall
    /\ UNCHANGED <<repo, notNav>>

\* the caller goes on with the path it held
VcsDrop ==
    /\ last # NoCall
    /\ last' = NoCall
    /\ UNCHANGED <<cur, repo, notNav>>

VcsNext ==
    \/ \E name \in VcsNames : VcsChild(name)
    \/ VcsParent
    \/ VcsKeep
    \/ VcsDrop

SpecVcs == VcsInit /\ [][VcsNext]_vars

---------------------------------------------------------------------------
(* Claims about VCS-backed paths *)

\* C7: a GitPath or HgPath denoting the repository root is its own parent,
\* with no control directory and with the one from_path records, so parent()
\* never yields a path above the repository root.
C7_RepoRootFixedPoint ==
    (last.op = "parent") =>
        /\ last.ret.ok
        /\ InSubtree(last.ret.val.path, repo.path)
        /\ vcsEq(last.self, repo) => vcsEq(last.ret.val, repo)

\* C8: for every VCS-backed path v and every child name n, v.child(n).parent()
\* == v and the child carries v's control-directory reference.
C8_VcsChildParent ==
    (last.op = "child" /\ last.ret.ok) =>
        /\ last.ret.val.dir = last.self.dir
        /\ vcsParent(last.ret.val).ok
        /\ vcsEq(vcsParent(last.ret.val).val, last.self)

---------------------------------------------------------------------------
(* segmentsFrom and descendant (bp/generic.py): from a start path a number *)
(* of child() steps are taken, then segmentsFrom(ancestor) is called on    *)
(* the path reached and descendant() on the ancestor with what it returned *)

notSeg == <<repo, disk, stack, yielded, wstatus, mem, zip, procs,
            handles, statinfo, childmap, iso>>

\* f.basename(): FilePath.basename, MemoryPath.basename and ISOPath.basename
\* (the last name, '' at the root), ZipPath.basename (the last '/'-piece)
path_basename(f) ==
    IF f.cls = "FilePath" THEN FilePath_basename(f)
    ELSE IF IsZip(f) THEN split(f.path, SEP)[Len(split(f.path, SEP))]
    ELSE IF Len(f.path) > 0 THEN f.path[Len(f.path)]
    ELSE <<>>

\* genericSegmentsFrom from its while loop on. f != ancestor is decided by
\* __cmp__ on FilePath and ZipPath; MemoryPath and ISOPath define __eq__ and
\* no __ne__, so that != tells objects apart, and f is the object ancestor
\* only before the first parent() step and when the caller passed the
\* receiver itself (same). f != p compares f with its own parent.
RECURSIVE segmentsLoop(_, _, _, _)
segmentsLoop(f, ancestor, same, segs) ==
    IF /\ IF f.cls \in {"MemoryPath", "ISOPath"} THEN ~same ELSE ~eq(f, ancestor)
       /\ ~eq(f, parent(f))
    THEN segmentsLoop(parent(f), ancestor, FALSE, Append(segs, path_basename(f)))
    ELSE IF eq(f, ancestor) /\ segs # <<>>
    THEN Ret([i \in 1..Len(segs) |-> segs[Len(segs) + 1 - i]])
    ELSE Raise("ValueError")

\* genericSegmentsFrom(path, ancestor)
genericSegmentsFrom(path, ancestor, same) == segmentsLoop(path, ancestor, same, <<>>)

\* genericDescendant(path, segments)
RECURSIVE genericDescendant(_, _)
genericDescendant(path, segs) ==
    IF segs = <<>> THEN Ret(path)
    ELSE IF ~child(path, Head(segs)).ok THEN child(path, Head(segs))
    ELSE genericDescendant(child(path, Head(segs)).val, Tail(segs))

\* path.descendant(segments): MemoryPath and ISOPath add the tuple to _path,
\* FilePath and ZipPath use genericDescendant
descendant(path, segs) ==
    IF path.cls \in {"MemoryPath", "ISOPath"}
    THEN Ret([path EXCEPT !.path = @ \o segs])
    ELSE genericDescendant(path, segs)

\* the names of the child() steps
SegNames == {<<"a">>, <<"b">>}

\* the paths of one class that the steps start from and the ancestors asked for
SegStarts(cls) ==
    CASE cls = "FilePath" -> {FilePath(<<SEP>>), FilePath(<<SEP, "a">>)}
      [] cls = "MemoryPath" -> {MemoryPath(<<>>), MemoryPath(<<<<"a">>>>)}
      [] cls = "ISOPath" -> {ISOPath(<<>>), ISOPath(<<<<"a">>>>)}
      [] cls = "ZipPath" -> {ZipArchive, ZipPath(<<"a">>)}

SegInit ==
    /\ \E cls \in {"FilePath", "MemoryPath", "ISOPath", "ZipPath"} :
           /\ cur \in SegStarts(cls)
           /\ \E a \in SegStarts(cls) : origin = [anc |-> a, start |-> cur, names |-> <<>>]
    /\ last = NoCall
    /\ prev = NoCall
    /\ repo = Null
    /\ disk = NoDisk
    /\ mem = NoMem
    /\ zip = NoZip
    /\ procs = <<>>
    /\ stack = <<>>
    /\ yielded = <<>>
    /\ wstatus = "idle"
    /\ handles = <<>>
    /\ statinfo = NoStat
    /\ childmap = <<>>
    /\ iso = NoIso

\* cur = cur.child(name)
SegChild(name) ==
    /\ Len(origin.names) < MaxDepth
    /\ child(cur, name).ok
    /\ cur' = child(cur, name).val
    /\ origin' = [origin EXCEPT !.names = Append(@, name)]
    /\ last' = Call("child", cur, name, child(cur, name))
    /\ prev' = last
    /\ UNCHANGED notSeg

\* cur.segmentsFrom(ancestor); same: the ancestor passed is the object cur
SegSegmentsFrom(same) ==
    /\ same => (origin.names = <<>> /\ origin.anc = cur)
    /\ last' = Call("segmentsFrom", cur, origin.anc,
                    genericSegmentsFrom(cur, origin.anc, same))
    /\ prev' = last
    /\ UNCHANGED <<cur, origin, notSeg>>

\* ancestor.descendant(cur.segmentsFrom(ancestor))
SegDescendant ==
    /\ last.op = "segmentsFrom"
    /\ last.ret.ok
    /\ last' = Call("descendant", origin.anc, last.ret.val,
                    descendant(origin.anc, last.ret.val))
    /\ prev' = last
    /\ UNCHANGED <<cur, origin, notSeg>>

SegNext ==
    \/ \E name \in SegNames : SegChild(name)
    \/ \E same \in BOOLEAN : SegSegmentsFrom(same)
    \/ SegDescendant

SpecSeg == SegInit /\ [][SegNext]_vars

---------------------------------------------------------------------------
(* Claims about segmentsFrom *)

\* the paths from p up to the root, p first
RECURSIVE upward(_)
upward(p) == IF eq(p, parent(p)) THEN <<p>> ELSE <<p>> \o upward(parent(p))

\* the names between the ancestor, met at position i of upward(p), and p,
\* root to leaf
namesBelow(p, i) == [k \in 1..(i - 1) |-> path_basename(upward(p)[i - k])]

\* what the claims say p.segmentsFrom(a) does
segmentsExpected(p, a) ==
    IF \E i \in 1..Len(upward(p)) : eq(upward(p)[i], a)
    THEN Ret(namesBelow(p, CHOOSE i \in 1..Len(upward(p)) :
                               /\ eq(upward(p)[i], a)
                               /\ \A j \in 1..(i - 1) : ~eq(upward(p)[j], a)))
    ELSE Raise("ValueError")

\* C11: when p was reached from a by one or more child() steps,
\* p.segmentsFrom(a) returns the names of those steps in order, and
\* a.descendant() of what it returned is p again.
C11_SegmentsRoundTrip ==
    /\ (/\ last.op = "segmentsFrom"
        /\ origin.anc = origin.start
        /\ origin.names # <<>>) =>
           last.ret = Ret(origin.names)
    /\ (/\ last.op = "descendant"
        /\ origin.anc = origin.start
        /\ origin.names # <<>>) =>
           (last.ret.ok /\ eq(last.ret.val, cur))

\* C12: p.segmentsFrom(a) raises ValueError exactly when a is not met on the
\* way from p up to the root; when a is met it returns the basenames between
\* a and p, root to leaf, the empty list when a == p.
C12_SegmentsFromAncestor ==
    last.op = "segmentsFrom" => last.ret = segmentsExpected(last.self, last.arg)

\* ------------------------------------------------------------------
\* The stat snapshot of a FilePath value (bp/filepath.py)
\* ------------------------------------------------------------------

\* statinfo = 0: stat() was called and found nothing at the path
Missing == [known |-> TRUE, exists |-> FALSE, kind |-> "", size |-> 0]

\* os.stat(path): the snapshot of what is there, OSError when nothing is
os_stat(d, path) ==
    IF statKey(d, path) = <<>> THEN Raise("OSError")
    ELSE Ret([known |-> TRUE, exists |-> TRUE,
              kind |-> d.dir[statKey(d, path)].kind,
              size |-> IF d.dir[statKey(d, path)].kind = "file"
                       THEN Len(d.data[d.dir[statKey(d, path)].ino]) ELSE 0])

\* FilePath.restat(reraise): [st |-> the new statinfo, res |-> its outcome]
FilePath_restat(d, self, reraise) ==
    IF os_stat(d, self.path).ok
    THEN [st |-> os_stat(d, self.path).val, res |-> Ret(Null)]
    ELSE [st |-> Missing,
          res |-> IF reraise THEN Raise("OSError") ELSE Ret(Null)]

\* a query that calls restat() whatever snapshot the value holds
statinfoOr_fresh(d, self, st, reraise) == FilePath_restat(d, self, reraise)

\* "st = self.statinfo; if not st: self.restat(reraise); st = self.statinfo":
\* None and 0 are both false, so only a snapshot of a found path is reused
statinfoOr(d, self, st, reraise) ==
    IF st.known /\ st.exists THEN [st |-> st, res |-> Ret(Null)]
    ELSE FilePath_restat(d, self, reraise)

StatQueries == {"exists", "isdir", "isfile", "getsize"}

\* exists(), isdir(), isfile() (restat(False)) and getsize() (restat()):
\* [st |-> statinfo afterwards, res |-> the answer]
FilePath_query(q, d, self, st) ==
    CASE q = "exists" ->
           [st |-> statinfoOr(d, self, st, FALSE).st,
            res |-> Ret(statinfoOr(d, self, st, FALSE).st.exists)]
      [] q = "isdir" ->
           [st |-> statinfoOr(d, self, st, FALSE).st,
            res |-> Ret(statinfoOr(d, self, st, FALSE).st.kind = "dir")]
      [] q = "isfile" ->
           [st |-> statinfoOr(d, self, st, FALSE).st,
            res |-> Ret(statinfoOr(d, self, st, FALSE).st.kind = "file")]
      [] q = "getsize" ->
           [st |-> statinfoOr(d, self, st, TRUE).st,
            res |-> IF statinfoOr(d, self, st, TRUE).res.ok
                    THEN Ret(statinfoOr(d, self, st, TRUE).st.size)
                    ELSE statinfoOr(d, self, st, TRUE).res]

StatContents == {<<>>, <<"x">>}

\* one FilePath value /w/a, nothing asked of it yet; the disk is changed
\* through other values while it lives
StatInit ==
    /\ cur = FilePath(<<SEP, "w", SEP, "a">>)
    /\ disk = EmptyRoot
    /\ mem = NoMem
    /\ zip = NoZip
    /\ repo = <<>>
    /\ procs = <<>>
    /\ last = NoCall
    /\ prev = NoCall
    /\ stack = <<>>
    /\ yielded = <<>>
    /\ wstatus = "setup"
    /\ LaterOff

\* cur.exists(), cur.isdir(), cur.isfile(), cur.getsize(); the call records
\* the snapshot it answered from
StatQuery(q) ==
    /\ statinfo' = FilePath_query(q, disk, cur, statinfo).st
    /\ last' = Call(q, cur, FilePath_query(q, disk, cur, statinfo).st,
                    FilePath_query(q, disk, cur, statinfo).res)
    /\ prev' = last
    /\ UNCHANGED <<cur, repo, disk, stack, yielded, wstatus, mem, zip, procs,
                   origin, handles, childmap, iso>>

\* cur.changed(): the snapshot is dropped
StatChanged ==
    /\ statinfo' = NoStat
    /\ last' = Call("changed", cur, NoStat, Ret(Null))
    /\ prev' = last
    /\ UNCHANGED <<cur, repo, disk, stack, yielded, wstatus, mem, zip, procs,
                   origin, handles, childmap, iso>>

\* FilePath(cur.path).setContent(content) through another value
StatOtherSetContent(content, token) ==
    /\ FilePath_setContent(disk, cur, content, token).ok
    /\ disk' = reclaim(FilePath_setContent(disk, cur, content, token).val, {})
    /\ UNCHANGED <<cur, last, prev, repo, stack, yielded, wstatus, mem, zip,
                   procs, later>>

StatNext ==
    \/ \E q \in StatQueries : StatQuery(q)
    \/ StatChanged
    \/ \E c \in StatContents, t \in Tokens : StatOtherSetContent(c, t)
    \/ \E where \in makeUnder, name \in WalkNames :
           FsCreateDirectory(child(where, name).val)

SpecStat == StatInit /\ [][StatNext]_vars

\* C16: between two queries of one FilePath value with no changed() in
\* between, the later one answers from the snapshot the earlier one
\* answered from, also when that snapshot says the path was missing.
C16_StatSnapshotReused ==
    (last.op \in StatQueries /\ prev.op \in StatQueries)
        => last.arg = prev.arg

\* ------------------------------------------------------------------
\* Handles of the memory backend (bp/memory.py)
\* ------------------------------------------------------------------

MaxHandles == 2
MaxBuf == 2

\* the keys the calls are made on: (), ('d',), ('f',), ('d', 'f')
HPaths == {<<>>, <<<<"d">>>>, <<<<"f">>>>, <<<<"d">>, <<"f">>>>}

\* the strings written
Chunks == {<<"v">>}

\* MemoryFile.__init__: a StringIO over buf, positioned at its start
MemoryFile(key, buf) == [key |-> key, buf |-> buf, pos |-> 0, closed |-> FALSE]

\* an open that starts every handle from an empty buffer
MemoryFS_open_as(m, path) ==
    IF path \in m.dirs THEN Raise("Exception")
    ELSE Ret(MemoryFile(path, <<>>))

\* MemoryFS.open
MemoryFS_open(m, path) ==
    IF path \in m.dirs THEN Raise("Exception")
    ELSE IF path \in DOMAIN m.store THEN Ret(MemoryFile(path, m.store[path]))
    ELSE Ret(MemoryFile(path, <<>>))

\* StringIO.write(s): s replaces what the buffer has from pos on, as far as
\* s reaches
StringIO_write(f, s) ==
    [f EXCEPT !.buf = SubSeq(f.buf, 1, f.pos) \o s
                        \o SubSeq(f.buf, f.pos + Len(s) + 1, Len(f.buf)),
              !.pos = f.pos + Len(s)]

\* MemoryFile.close: getvalue() fails on a closed StringIO
MemoryFile_close_as(m, f) ==
    IF f.closed THEN Raise("ValueError")
    ELSE Ret([m EXCEPT !.store = (f.key :> SubSeq(f.buf, 1, f.pos)) @@ @])
MemoryFile_close(m, f) ==
    IF f.closed THEN Raise("ValueError")
    ELSE Ret([m EXCEPT !.store = (f.key :> f.buf) @@ @])

\* an empty MemoryFS and no handle
HInit ==
    /\ cur = MemoryPath(<<>>)
    /\ mem = NoMem
    /\ disk = NoDisk
    /\ zip = NoZip
    /\ repo = <<>>
    /\ procs = <<>>
    /\ last = NoCall
    /\ prev = NoCall
    /\ WalkOff

\* MemoryPath(fs, path).createDirectory()
HCreateDirectory(path) ==
    /\ mem' = MemoryPath_createDirectory(mem, MemoryPath(path))
    /\ last' = Call("createDirectory", MemoryPath(path), <<>>, Ret(Null))
    /\ UNCHANGED <<cur, prev, repo, disk, stack, yielded, wstatus, zip, procs, later>>

\* MemoryPath(fs, path).open(): the handle is kept when one is returned
HOpen(path) ==
    /\ Len(handles) < MaxHandles
    /\ handles' = IF MemoryFS_open(mem, path).ok
                  THEN Append(handles, MemoryFS_open(mem, path).val)
                  ELSE handles
    /\ last' = Call("open", MemoryPath(path), <<>>,
                    IF MemoryFS_open(mem, path).ok THEN Ret(Null)
                    ELSE MemoryFS_open(mem, path))
    /\ UNCHANGED <<cur, prev, repo, disk, stack, yielded, wstatus, mem, zip, procs,
                   origin, statinfo, childmap, iso>>

\* handles[i].write(s) on an open handle
HWrite(i, s) ==
    /\ ~handles[i].closed
    /\ Len(StringIO_write(handles[i], s).buf) <= MaxBuf
    /\ handles' = [handles EXCEPT ![i] = StringIO_write(@, s)]
    /\ UNCHANGED <<cur, last, prev, repo, disk, stack, yielded, wstatus, mem,
                   zip, procs, origin, statinfo, childmap, iso>>

\* handles[i].read() on an open handle: the position moves to the end
HRead(i) ==
    /\ ~handles[i].closed
    /\ handles[i].pos < Len(handles[i].buf)
    /\ handles' = [handles EXCEPT ![i].pos = Len(handles[i].buf)]
    /\ UNCHANGED <<cur, last, prev, repo, disk, stack, yielded, wstatus, mem,
                   zip, procs, origin, statinfo, childmap, iso>>

\* handles[i].close()
HClose(i) ==
    /\ mem' = IF MemoryFile_close(mem, handles[i]).ok
              THEN MemoryFile_close(mem, handles[i]).val ELSE mem
    /\ handles' = [handles EXCEPT ![i].closed = TRUE]
    /\ last' = Call("close", MemoryPath(handles[i].key), <<>>,
                    IF MemoryFile_close(mem, handles[i]).ok THEN Ret(Null)
                    ELSE MemoryFile_close(mem, handles[i]))
    /\ UNCHANGED <<cur, prev, repo, disk, stack, yielded, wstatus, zip, procs,
                   origin, statinfo, childmap, iso>>

\* MemoryPath(fs, path).getContent()
HGetContent(path) ==
    /\ last' = Call("getContent", MemoryPath(path), <<>>,
                    MemoryPath_getContent(mem, MemoryPath(path)))
    /\ UNCHANGED <<cur, prev, repo, disk, stack, yielded, wstatus, mem, zip, procs,
                   later>>

\* MemoryPath(fs, path).listdir()
HListdir(path) ==
    /\ last' = Call("listdir", MemoryPath(path), <<>>,
                    MemoryPath_listdir(mem, MemoryPath(path)))
    /\ UNCHANGED <<cur, prev, repo, disk, stack, yielded, wstatus, mem, zip, procs,
                   later>>

HNext ==
    \/ \E p \in HPaths : HCreateDirectory(p)
    \/ \E p \in HPaths : HOpen(p)
    \/ \E i \in 1..Len(handles), s \in Chunks : HWrite(i, s)
    \/ \E i \in 1..Len(handles) : HRead(i)
    \/ \E i \in 1..Len(handles) : HClose(i)
    \/ \E p \in HPaths : HGetContent(p)
    \/ \E p \in HPaths : HListdir(p)

SpecMem == HInit /\ [][HNext]_vars

\* the handles that a step closes
closing(i) == ~handles[i].closed /\ handles'[i].closed

\* C17: what is written to a handle of MemoryPath.open() stays in that
\* handle's buffer: a step that closes no handle leaves every stored content
\* as it was, a step that changes one handle's buffer changes no other
\* handle, a newly opened handle starts from the stored content, and a step
\* that closes a handle stores that handle's whole buffer under its key and
\* nothing else.
C17_BufferedUntilClose ==
    [][/\ (\A i \in 1..Len(handles) : ~closing(i)) => mem'.store = mem.store
       /\ \A i \in 1..Len(handles) : \A j \in 1..Len(handles) \ {i} :
              handles'[i].buf # handles[i].buf => handles'[j] = handles[j]
       /\ Len(handles') > Len(handles) =>
              handles'[Len(handles')].buf =
                  IF handles'[Len(handles')].key \in DOMAIN mem.store
                  THEN mem.store[handles'[Len(handles')].key] ELSE <<>>
       /\ \A i \in 1..Len(handles) : closing(i) =>
              mem'.store = (handles[i].key :> handles[i].buf) @@ mem.store]_vars

\* one handle wrote and closed, its whole buffer is stored; a second handle
\* on the same key holds something else that getContent() does not show
C17_Witness ==
    \E i \in 1..Len(handles) : \E j \in 1..Len(handles) :
        /\ handles[i].closed /\ ~handles[j].closed
        /\ handles[i].key = handles[j].key
        /\ Len(handles[i].buf) = MaxBuf
        /\ handles[j].buf # handles[i].buf
        /\ last.op = "getContent" /\ last.self.path = handles[i].key
        /\ last.ret = Ret(handles[i].buf)

\* the keys and directories of m exactly one level below path p
oneBelow(m, p) ==
    {k \in m.dirs \cup DOMAIN m.store :
        /\ Len(k) = Len(p) + 1
        /\ \A i \in 1..Len(p) : k[i] = p[i]}

\* the MemoryFS of the scenario: directories () and ('d',), b'v' written to
\* ('d', 'f') and closed
Scenario18 ==
    /\ mem.dirs = {<<>>, <<<<"d">>>>}
    /\ mem.store = (<<<<"d">>, <<"f">>>> :> <<"v">>)
    /\ \E i \in 1..Len(handles) :
           handles[i] = [key |-> <<<<"d">>, <<"f">>>>, buf |-> <<"v">>,
                         pos |-> 1, closed |-> TRUE]

\* C18: MemoryPath.listdir() raises UnlistableError on a path that is not a
\* registered directory and otherwise returns the last segments of just the
\* stored keys and registered directories one level below the path; in the
\* scenario listdir of ('d',) is ['f'] and getContent of ('d', 'f') is b'v'.
C18_MemoryListdir ==
    /\ last.op = "listdir" =>
          IF last.self.path \notin mem.dirs
          THEN last.ret = Raise("UnlistableError")
          ELSE /\ last.ret.ok
               /\ {last.ret.val[i] : i \in 1..Len(last.ret.val)}
                      = {k[Len(k)] : k \in oneBelow(mem, last.self.path)}
    /\ (Scenario18 /\ last.op = "listdir" /\ last.self.path = <<<<"d">>>>)
          => last.ret = Ret(<<<<"f">>>>)
    /\ (Scenario18 /\ last.op = "getContent"
           /\ last.self.path = <<<<"d">>, <<"f">>>>)
          => last.ret = Ret(<<"v">>)

\* listdir of ('d',) answered in the scenario
C18_Witness ==
    /\ Scenario18
    /\ last.op = "listdir"
    /\ last.self.path = <<<<"d">>>>
    /\ last.ret.ok

\* listdir refused on a path that is stored as a file but is no directory
C18_WitnessUnlistable ==
    /\ last.op = "listdir"
    /\ last.self.path \in DOMAIN mem.store
    /\ ~last.ret.ok

\* ------------------------------------------------------------------
\* bp/readonly.py: ReadOnlyPath over a MemoryPath or a FilePath
\* ------------------------------------------------------------------

\* ReadOnlyPath.__init__
ReadOnlyPath(fp) == [cls |-> "ReadOnlyPath", fp |-> fp]

\* bp.util.modeIsWriting: the mode writes when it starts with w or a or
\* has a +
modeIsWriting(mode) ==
    startswith(mode, <<"w">>) \/ startswith(mode, <<"a">>) \/ contains(mode, "+")

\* the mode argument of open
Modes == {<<"r">>, <<"r", "b">>, <<"w">>, <<"a">>, <<"r", "+">>}

\* self._fp.open(mode) for a mode that reads: a MemoryFile, or a file object
\* of the operating system that holds nothing of the model
path_open(fs, path) ==
    IF path.cls = "MemoryPath" THEN MemoryFS_open(fs.mem, path.path)
    ELSE IF os_open(fs.disk, path.path).ok THEN Ret(Null)
    ELSE Raise("IOError")

\* ReadOnlyPath.open
ReadOnlyPath_open(fs, self, mode) ==
    IF modeIsWriting(mode) THEN Raise("Exception") ELSE path_open(fs, self.fp)

\* ReadOnlyPath.createDirectory: [fs |-> the backend afterwards, res |-> outcome]
ReadOnlyPath_createDirectory(fs, self) == [fs |-> fs, res |-> Raise("Exception")]

\* ReadOnlyPath.setContent
ReadOnlyPath_setContent_as(fs, self, content) ==
    IF self.fp.cls = "MemoryPath"
    THEN [fs |-> [fs EXCEPT !.mem = MemoryPath_setContent(fs.mem, self.fp, content)],
          res |-> Ret(Null)]
    ELSE [fs |-> fs, res |-> Raise("Exception")]
ReadOnlyPath_setContent(fs, self, content) == [fs |-> fs, res |-> Raise("Exception")]

\* ReadOnlyPath.getContent
ReadOnlyPath_getContent(fs, self) ==
    IF self.fp.cls = "MemoryPath" THEN MemoryPath_getContent(fs.mem, self.fp)
    ELSE FilePath_getContent(fs.disk, self.fp)

\* a MemoryFS with directories () and ('a',) and the file ('a', 'b')
RoMem == [dirs |-> {<<>>, <<<<"a">>>>}, store |-> (<<<<"a">>, <<"b">>>> :> <<"v">>)]

\* a disk with the directory /w and the file /w/a
RoDisk ==
    [dir |-> (<<SEP>> :> DirEntry(<<<<"w">>>>))
             @@ (WalkRoot.path :> DirEntry(<<<<"a">>>>))
             @@ (<<SEP, "w", SEP, "a">> :>
                    [kind |-> "file", names |-> <<>>, target |-> <<>>, ino |-> 1]),
     data |-> <<<<"v">>>>]

\* the paths the calls are made on, by their segments: (), ('a',), ('b',) and
\* ('a', 'b') in memory, /w, /w/a and /w/b on disk
RoSegments ==
    {<<>>, <<<<"a">>>>, <<<<"b">>>>, <<<<"a">>, <<"b">>>>,
     <<<<"w">>>>, <<<<"w">>, <<"a">>>>, <<<<"w">>, <<"b">>>>}

\* ReadOnlyPath(MemoryPath(fs)) or ReadOnlyPath(FilePath("/w"))
RoInit ==
    /\ \/ cur = ReadOnlyPath(MemoryPath(<<>>)) /\ mem = RoMem /\ disk = NoDisk
       \/ cur = ReadOnlyPath(WalkRoot) /\ mem = NoMem /\ disk = RoDisk
    /\ zip = NoZip
    /\ repo = <<>>
    /\ procs = <<>>
    /\ last = NoCall
    /\ prev = NoCall
    /\ WalkOff

\* cur = cur.child(name): ReadOnlyPath(self._fp.child(name))
RoChild(name) ==
    /\ child(cur.fp, name).ok
    /\ segments(child(cur.fp, name).val) \in RoSegments
    /\ cur' = ReadOnlyPath(child(cur.fp, name).val)
    /\ UNCHANGED <<last, repo, notNav>>

\* cur = cur.parent(): ReadOnlyPath(self._fp.parent())
RoParent ==
    /\ cur' = ReadOnlyPath(parent(cur.fp))
    /\ UNCHANGED <<last, repo, notNav>>

\* cur.open(mode)
RoOpen(mode) ==
    /\ Len(handles) < MaxHandles
    /\ handles' = IF cur.fp.cls = "MemoryPath"
                     /\ ReadOnlyPath_open(Fs(disk, mem), cur, mode).ok
                  THEN Append(handles, ReadOnlyPath_open(Fs(disk, mem), cur, mode).val)
                  ELSE handles
    /\ last' = Call("open", cur, mode,
                    IF ReadOnlyPath_open(Fs(disk, mem), cur, mode).ok THEN Ret(Null)
                    ELSE ReadOnlyPath_open(Fs(disk, mem), cur, mode))
    /\ UNCHANGED <<cur, prev, repo, disk, stack, yielded, wstatus, mem, zip,
                   procs, origin, statinfo, childmap, iso>>

\* cur.createDirectory()
RoCreateDirectory ==
    /\ mem' = ReadOnlyPath_createDirectory(Fs(disk, mem), cur).fs.mem
    /\ disk' = ReadOnlyPath_createDirectory(Fs(disk, mem), cur).fs.disk
    /\ last' = Call("createDirectory", cur, <<>>,
                    ReadOnlyPath_createDirectory(Fs(disk, mem), cur).res)
    /\ UNCHANGED <<cur, prev, repo, stack, yielded, wstatus, zip, procs, later>>

\* cur.setContent(content)
RoSetContent(content) ==
    /\ mem' = ReadOnlyPath_setContent(Fs(disk, mem), cur, content).fs.mem
    /\ disk' = ReadOnlyPath_setContent(Fs(disk, mem), cur, content).fs.disk
    /\ last' = Call("setContent", cur, content,
                    ReadOnlyPath_setContent(Fs(disk, mem), cur, content).res)
    /\ UNCHANGED <<cur, prev, repo, stack, yielded, wstatus, zip, procs, later>>

\* cur.getContent(), cur.listdir(), cur.isdir(): self._fp answers
RoRead(op) ==
    /\ last' = Call(op, cur, <<>>,
                    CASE op = "getContent" -> ReadOnlyPath_getContent(Fs(disk, mem), cur)
                      [] op = "listdir" -> path_listdir(Fs(disk, mem), cur.fp)
                      [] op = "isdir" -> Ret(path_isdir(Fs(disk, mem), cur.fp)))
    /\ UNCHANGED <<cur, prev, repo, disk, stack, yielded, wstatus, mem, zip,
                   procs, later>>

RoNext ==
    \/ \E name \in WalkNames : RoChild(name)
    \/ RoParent
    \/ \E mode \in Modes : RoOpen(mode)
    \/ RoCreateDirectory
    \/ \E c \in StatContents : RoSetContent(c)
    \/ \E op \in {"getContent", "listdir", "isdir"} : RoRead(op)
    \/ \E i \in 1..Len(handles) : HRead(i)
    \/ \E i \in 1..Len(handles) : HClose(i)

SpecRo == RoInit /\ [][RoNext]_vars

\* the call that a step makes is one of the write attempts
writeAttempt(c) ==
    \/ c.op \in {"createDirectory", "setContent"}
    \/ c.op = "open" /\ modeIsWriting(c.arg)

\* C13: on a ReadOnlyPath, open() with a writing mode, createDirectory() and
\* setContent() fail whatever the wrapped path would have done, and the
\* wrapped backend (stored contents, directories, the disk) is the same
\* after the failed call as before.
C13_ReadOnlyWritesFail ==
    [][(writeAttempt(last') /\ last' # last) =>
          /\ ~last'.ret.ok
          /\ last'.ret.err = "Exception"
          /\ mem' = mem
          /\ disk' = disk]_vars

\* createDirectory() refused on a ReadOnlyPath over a memory path that is no
\* directory yet, where the wrapped path would have made it
C13_Witness ==
    /\ last.op = "createDirectory"
    /\ ~last.ret.ok
    /\ last.self.fp.cls = "MemoryPath"
    /\ last.self.fp.path \notin mem.dirs
    /\ MemoryPath_createDirectory(mem, last.self.fp) # mem

\* C14: no step made through a ReadOnlyPath (navigation, listing, queries,
\* getContent, open() in a read mode and closing the handle) changes the
\* wrapped backend.
C14_ReadOnlyFrame == [][mem' = mem /\ disk' = disk]_vars

\* ------------------------------------------------------------------
\* l/project.py: the calls GitPath and HgPath hand on to the wrapped path
\* ------------------------------------------------------------------

\* the property _proxy_for_attribute(name) makes, called with arg on a
\* GitPath or HgPath over a MemoryPath: getattr(self._path, name)(arg)
proxy_for_attribute_as(name, m, self, arg) ==
    CASE name \in {"setContent", "createDirectory", "open"} ->
           [mem |-> m, res |-> Raise("UnsupportedOperation")]
      [] name = "getContent" ->
           [mem |-> m, res |-> MemoryPath_getContent(m, self.path)]
proxy_for_attribute(name, m, self, arg) ==
    CASE name = "setContent" ->
           [mem |-> MemoryPath_setContent(m, self.path, arg), res |-> Ret(Null)]
      [] name = "createDirectory" ->
           [mem |-> MemoryPath_createDirectory(m, self.path), res |-> Ret(Null)]
      [] name = "getContent" ->
           [mem |-> m, res |-> MemoryPath_getContent(m, self.path)]
      [] name = "open" ->
           [mem |-> m, res |-> MemoryFS_open(m, self.path.path)]

\* a GitPath or HgPath over the root of a MemoryFS that holds ('a', 'b')
ProxyInit ==
    /\ repo \in from_path(MemoryPath(<<>>))
    /\ cur = repo
    /\ mem = RoMem
    /\ disk = NoDisk
    /\ zip = NoZip
    /\ procs = <<>>
    /\ last = NoCall
    /\ prev = NoCall
    /\ WalkOff

\* cur = cur.child(name)
ProxyChild(name) ==
    /\ vcsChild(cur, name).ok
    /\ segments(vcsChild(cur, name).val.path) \in RoSegments
    /\ cur' = vcsChild(cur, name).val
    /\ UNCHANGED <<last, repo, notNav>>

\* cur.setContent(content)
ProxySetContent(content) ==
    /\ mem' = proxy_for_attribute("setContent", mem, cur, content).mem
    /\ last' = Call("setContent", cur, content,
                    proxy_for_attribute("setContent", mem, cur, content).res)
    /\ UNCHANGED <<cur, prev, repo, disk, stack, yielded, wstatus, zip, procs,
                   later>>

\* cur.createDirectory()
ProxyCreateDirectory ==
    /\ mem' = proxy_for_attribute("createDirectory", mem, cur, <<>>).mem
    /\ last' = Call("createDirectory", cur, <<>>,
                    proxy_for_attribute("createDirectory", mem, cur, <<>>).res)
    /\ UNCHANGED <<cur, prev, repo, disk, stack, yielded, wstatus, zip, procs,
                   later>>

\* cur.open(mode): MemoryPath.open takes any mode
ProxyOpen(mode) ==
    /\ Len(handles) < MaxHandles
    /\ handles' = IF proxy_for_attribute("open", mem, cur, mode).res.ok
                  THEN Append(handles, proxy_for_attribute("open", mem, cur, mode).res.val)
                  ELSE handles
    /\ last' = Call("open", cur, mode,
                    IF proxy_for_attribute("open", mem, cur, mode).res.ok THEN Ret(Null)
                    ELSE proxy_for_attribute("open", mem, cur, mode).res)
    /\ UNCHANGED <<cur, prev, repo, disk, stack, yielded, wstatus, mem, zip,
                   procs, origin, statinfo, childmap, iso>>

\* cur.getContent()
ProxyGetContent ==
    /\ last' = Call("getContent", cur, <<>>,
                    proxy_for_attribute("getContent", mem, cur, <<>>).res)
    /\ UNCHANGED <<cur, prev, repo, disk, stack, yielded, wstatus, mem, zip,
                   procs, later>>

ProxyNext ==
    \/ \E name \in WalkNames : ProxyChild(name)
    \/ \E c \in StatContents : ProxySetContent(c)
    \/ ProxyCreateDirectory
    \/ \E mode \in Modes : ProxyOpen(mode)
    \/ ProxyGetContent
    \/ \E i \in 1..Len(handles) : HClose(i)

SpecProxy == ProxyInit /\ [][ProxyNext]_vars

\* C15 as claimed: setContent, createDirectory and open in a writing mode on
\* a GitPath or HgPath fail with an unsupported-operation error.
C15_VcsWritesRejected ==
    (last.self.cls \in {"GitPath", "HgPath"} /\ writeAttempt(last))
        => (~last.ret.ok /\ last.ret.err = "UnsupportedOperation")

\* C15: a write attempt on a GitPath or HgPath is handed to the wrapped path
\* unchanged and has the outcome and the effect of the same call on the
\* wrapped path: setContent stores the content, createDirectory registers
\* the directory, open returns a handle on the wrapped path's key unless the
\* wrapped path is a directory.
C15_VcsWritesForwarded ==
    last.self.cls \in {"GitPath", "HgPath"} =>
        /\ last.op = "setContent" =>
              /\ last.ret.ok
              /\ MemoryPath_getContent(mem, last.self.path) = Ret(last.arg)
        /\ last.op = "createDirectory" =>
              /\ last.ret.ok
              /\ MemoryPath_isdir(mem, last.self.path)
        /\ last.op = "open" =>
              IF MemoryPath_isdir(mem, last.self.path)
              THEN last.ret = Raise("Exception")
              ELSE /\ last.ret.ok
                   /\ handles[Len(handles)].key = last.self.path.path

\* setContent on an HgPath has stored new content in the wrapped MemoryFS
C15_Witness ==
    /\ last.op = "setContent"
    /\ last.self.cls = "HgPath"
    /\ last.ret.ok
    /\ last.self.path.path \notin DOMAIN RoMem.store
    /\ mem.store[last.self.path.path] = last.arg

\* ------------------------------------------------------------------
\* bp/zippath.py: the index ZipArchive.__init__ builds, and the queries on it
\* ------------------------------------------------------------------

\* name[-x] of a Python list: name[-0] is the first element
negIndex(name, x) == IF x = 0 THEN name[1] ELSE name[Len(name) + 1 - x]

\* name[:-x] of a Python list: name[:-0] is empty
negSlice_as(name, x) == SubSeq(name, 1, Len(name) - x)
negSlice(name, x) == IF x = 0 THEN <<>> ELSE SubSeq(name, 1, Len(name) - x)

\* if parent not in self.childmap: self.childmap[parent] = {};
\* self.childmap[parent][child] = 1
setChild(cm, d, name) ==
    IF d \in DOMAIN cm THEN [cm EXCEPT ![d] = @ \cup {name}]
    ELSE (d :> {name}) @@ cm

\* for x in range(len(name)), from x on; name is the split entry name
RECURSIVE childmapOfName(_, _, _)
childmapOfName(cm, name, x) ==
    IF x >= Len(name) THEN cm
    ELSE childmapOfName(setChild(cm, join(negSlice(name, x), SEP), negIndex(name, x)),
                        name, x + 1)

\* ZipArchive.__init__: for name in self.zipfile.namelist(), from entry i on
RECURSIVE ZipArchive_childmap(_, _, _)
ZipArchive_childmap(cm, z, i) ==
    IF i > Len(z.filelist) THEN cm
    ELSE ZipArchive_childmap(childmapOfName(cm, split(z.filelist[i].filename, SEP), 0),
                             z, i + 1)

\* ZipPath.isdir
ZipPath_isdir(cm, self) == self.path \in DOMAIN cm

\* ZipPath.isfile
ZipPath_isfile(z, self) == self.path \in DOMAIN z.NameToInfo

\* ZipPath.exists; ZipArchive.exists asks the disk for the archive file, which
\* ZipFile has opened
ZipPath_exists(cm, z, self) ==
    IF self.cls = "ZipArchive" THEN TRUE
    ELSE ZipPath_isdir(cm, self) \/ ZipPath_isfile(z, self)

\* ZipPath.listdir: the keys of the dict of children
ZipPath_listdir(cm, z, self) ==
    IF ~ZipPath_exists(cm, z, self) THEN Raise("UnlistableError")
    ELSE IF ZipPath_isdir(cm, self) THEN Ret(iterate(cm[self.path]))
    ELSE Raise("UnlistableError")

\* the entry names of the archives: a/b.txt, the directory entry a/, c, a/c
EntryNames ==
    {<<"a", SEP, "b", DOT, "t", "x", "t">>, <<"a", SEP>>, <<"c">>, <<"a", SEP, "c">>}

\* the names handed to child()
IndexNames == {<<"a">>, <<"b", DOT, "t", "x", "t">>, <<"c">>}

\* the ZipFile written with the given entry names, in their order
RECURSIVE zipfileOf(_)
zipfileOf(names) ==
    IF names = <<>> THEN [mode |-> "w", filelist |-> <<>>, NameToInfo |-> <<>>]
    ELSE ZipFile_writestr(zipfileOf(SubSeq(names, 1, Len(names) - 1)),
                          names[Len(names)], <<"h", "i">>).val

\* ZipArchive(archivePathname) on an archive of up to MaxZipEntries entries
IndexInit ==
    /\ \E n \in 0..MaxZipEntries : \E names \in [1..n -> EntryNames] :
           zip = [zipfileOf(names) EXCEPT !.mode = "r"]
    /\ childmap = ZipArchive_childmap(<<>>, zip, 1)
    /\ cur = ZipArchive
    /\ last = NoCall
    /\ prev = NoCall
    /\ repo = <<>>
    /\ disk = NoDisk
    /\ mem = NoMem
    /\ procs = <<>>
    /\ stack = <<>>
    /\ yielded = <<>>
    /\ wstatus = "idle"
    /\ origin = NoOrigin
    /\ handles = <<>>
    /\ statinfo = NoStat
    /\ iso = NoIso

\* cur = cur.child(name)
IndexChild(name) ==
    /\ Len(segments(cur)) < MaxDepth
    /\ cur' = child(cur, name).val
    /\ UNCHANGED <<last, repo, notNav>>

\* cur = cur.parent()
IndexParent ==
    /\ cur' = parent(cur)
    /\ UNCHANGED <<last, repo, notNav>>

\* cur.isdir(), cur.isfile(), cur.exists()
IndexQuery(q) ==
    /\ last' = Call(q, cur, <<>>,
                    CASE q = "isdir" -> Ret(ZipPath_isdir(childmap, cur))
                      [] q = "isfile" -> Ret(ZipPath_isfile(zip, cur))
                      [] q = "exists" -> Ret(ZipPath_exists(childmap, zip, cur)))
    /\ UNCHANGED <<cur, repo, notNav>>

\* cur.listdir()
IndexListdir ==
    /\ last' = Call("listdir", cur, <<>>, ZipPath_listdir(childmap, zip, cur))
    /\ UNCHANGED <<cur, repo, notNav>>

IndexNext ==
    \/ \E name \in IndexNames : IndexChild(name)
    \/ IndexParent
    \/ \E q \in {"isdir", "isfile", "exists"} : IndexQuery(q)
    \/ IndexListdir

SpecIndex == IndexInit /\ [][IndexNext]_vars

\* the entry names of the archive
entries == {zip.filelist[i].filename : i \in 1..Len(zip.filelist)}

\* the first j pieces of entry name e, joined again
prefixOf(e, j) == join(SubSeq(split(e, SEP), 1, j), SEP)

\* the directory prefixes of the entries, the root '' among them
dirPrefixes ==
    UNION {{prefixOf(e, j) : j \in 0..(Len(split(e, SEP)) - 1)} : e \in entries}

\* the names of the immediate children of prefix d: the piece that follows d
\* in an entry name
childNames(d) ==
    UNION {{split(e, SEP)[j + 1] :
               j \in {k \in 0..(Len(split(e, SEP)) - 1) : prefixOf(e, k) = d}} :
           e \in entries}

MaxIdLen == 3
MaxRecords == 2

\* str.lower() on the characters that occur in the identifiers
lower(s) ==
    [i \in 1..Len(s) |->
        CASE s[i] = "A" -> "a" [] s[i] = "B" -> "b" [] s[i] = "F" -> "f"
          [] s[i] = "O" -> "o" [] s[i] = "R" -> "r" [] s[i] = "T" -> "t"
          [] s[i] = "X" -> "x" [] OTHER -> s[i]]

\* Record.fromEntry on a directory record of the image: the name is lowered;
\* the extent, the directory flag and the identifier are those of the record
Record_fromEntry(data) ==
    [extent |-> data.extent, isdir |-> data.isdir, name |-> lower(data.name)]

\* name.rsplit(";", 1)[0]
rsplitHead(name) ==
    IF contains(name, ";") THEN SubSeq(name, 1, rfind1(name, ";") - 1) ELSE name

\* fixName
fixName(name) ==
    IF endswith(rsplitHead(name), <<DOT>>) THEN rstrip(rsplitHead(name), DOT)
    ELSE rsplitHead(name)

\* the names "\x00" and "\x01" of a directory's records for itself and its parent
SelfName == <<"NUL">>
ParentName == <<"SOH">>

\* the characters of the identifiers
IdChars == {"B", DOT, ";", "1"}

RECURSIVE IdOfLen(_)
IdOfLen(n) ==
    IF n = 0 THEN {<<>>}
    ELSE {Append(s, c) : s \in IdOfLen(n - 1), c \in IdChars}

\* the identifiers of the records: FOO.TXT;1, BAR., the two special names and
\* every string of up to MaxIdLen of the characters
Identifiers ==
    {<<"F", "O", "O", DOT, "T", "X", "T", ";", "1">>, <<"B", "A", "R", DOT>>,
     SelfName, ParentName}
        \cup UNION {IdOfLen(k) : k \in 1..MaxIdLen}

\* the directory extents of n records: record i has extent number i
Extents(n) ==
    {[i \in 1..n |-> [extent |-> i, isdir |-> f[i][1], name |-> f[i][2]]] :
        f \in [1..n -> BOOLEAN \X Identifiers]}

\* ISO(path) after readVDs: the root directory's extent is known, nothing is
\* being read
IsoInit ==
    /\ \E n \in 1..MaxRecords : \E recs \in Extents(n) :
           iso = [extents |-> recs, dirs |-> (<<>> :> 0)]
    /\ cur = ISOPath(<<>>)
    /\ stack = <<>>
    /\ yielded = <<>>
    /\ wstatus = "idle"
    /\ last = NoCall
    /\ prev = NoCall
    /\ repo = <<>>
    /\ disk = NoDisk
    /\ mem = NoMem
    /\ zip = NoZip
    /\ procs = <<>>
    /\ origin = NoOrigin
    /\ handles = <<>>
    /\ statinfo = NoStat
    /\ childmap = <<>>

\* readRecords(extent, segments) is called on the root directory; stack holds
\* the number of the record that is read next
IsoReadRecords ==
    /\ wstatus = "idle"
    /\ wstatus' = "reading"
    /\ stack' = <<1>>
    /\ UNCHANGED <<cur, last, repo, disk, yielded, mem, zip, prev, procs, later>>

\* one turn of the loop of readRecords on a record of size > 0
IsoRecord ==
    /\ wstatus = "reading"
    /\ stack[1] <= Len(iso.extents)
    /\ stack' = <<stack[1] + 1>>
    /\ \E record \in {Record_fromEntry(iso.extents[stack[1]])} :
          IF record.isdir /\ record.name \in {SelfName, ParentName}
          THEN UNCHANGED <<yielded, iso>>
          ELSE IF record.isdir
          THEN /\ iso' = [iso EXCEPT !.dirs =
                             (Append(cur.path, record.name) :> record.extent) @@ @]
               /\ yielded' = Append(yielded, record)
          ELSE /\ yielded' = Append(yielded, [record EXCEPT !.name = fixName(@)])
               /\ iso' = iso
    /\ UNCHANGED <<cur, last, repo, disk, wstatus, mem, zip, prev, procs,
                   origin, handles, statinfo, childmap>>

\* size == 0: no more records
IsoReturn ==
    /\ wstatus = "reading"
    /\ stack[1] > Len(iso.extents)
    /\ wstatus' = "done"
    /\ UNCHANGED <<cur, last, repo, disk, stack, yielded, mem, zip, prev, procs,
                   later>>

IsoNext ==
    \/ IsoReadRecords
    \/ IsoRecord
    \/ IsoReturn

SpecIso == IsoInit /\ [][IsoNext]_vars

Digits == {"0", "1", "2", "3", "4", "5", "6", "7", "8", "9"}

\* s without a trailing ;<digits>
versionCut(s) ==
    IF \E i \in 1..(Len(s) - 1) : s[i] = ";" /\ \A j \in (i + 1)..Len(s) : s[j] \in Digits
    THEN SubSeq(s, 1, rfind1(s, ";") - 1)
    ELSE s

\* s without one trailing dot
dotCut(s) == IF endswith(s, <<DOT>>) THEN SubSeq(s, 1, Len(s) - 1) ELSE s

\* C20: the name of every record that readRecords yields is the identifier
\* of its directory record lowered, without a trailing ;<digits> and then
\* without one trailing dot.
C20_IdentifierDecoded ==
    \A k \in 1..Len(yielded) :
        yielded[k].name = dotCut(versionCut(lower(iso.extents[yielded[k].extent].name)))

\* ------------------------------------------------------------------
\* The memory backend with setContent beside the handles (bp/memory.py)
\* ------------------------------------------------------------------

\* MemoryPath(fs, path).setContent(content)
HSetContent(path, content) ==
    /\ mem' = MemoryPath_setContent(mem, MemoryPath(path), content)
    /\ last' = Call("setContent", MemoryPath(path), content, Ret(Null))
    /\ UNCHANGED <<cur, prev, repo, disk, stack, yielded, wstatus, zip, procs, later>>

\* the keys that are written to and opened: ('d',) and ('d', 'f')
MemKeys == {<<<<"d">>>>, <<<<"d">>, <<"f">>>>}

MemNext ==
    \/ \E p \in HPaths : HCreateDirectory(p)
    \/ \E p \in MemKeys, c \in Chunks : HSetContent(p, c)
    \/ \E p \in MemKeys : HOpen(p)
    \/ \E i \in 1..Len(handles), s \in Chunks : HWrite(i, s)
    \/ \E i \in 1..Len(handles) : HClose(i)
    \/ \E p \in HPaths : HListdir(p)

SpecMemSet == HInit /\ [][MemNext]_vars

\* no member of the list s is met twice
eachOnce(s) == \A i \in 1..Len(s) : \A j \in 1..Len(s) : s[i] = s[j] => i = j

\* C21: after any sequence of createDirectory, setContent and open/close on
\* the paths of one MemoryFS, listdir() of a registered directory names each
\* child at most once, also when one path was both created as a directory
\* and written as a file.
C21_ListdirNamesOnce ==
    (last.op = "listdir" /\ last.ret.ok) => eachOnce(last.ret.val)

---------------------------------------------------------------------------
(* parents() (bp/generic.py genericParents): from a start path a number of *)
(* child() steps are taken, then the generator of parents() is created on  *)
(* the path reached and resumed until it is exhausted                      *)

\* path != parent in genericParents, parent being what path.parent() gave:
\* __cmp__ decides on FilePath and ZipPath; MemoryPath and ISOPath define
\* __eq__ and no __ne__, so that != tells objects apart, and their parent()
\* returns the receiver itself exactly when _path is empty
parentDiffers(path, up) ==
    IF path.cls \in {"MemoryPath", "ISOPath"} THEN path.path # <<>>
    ELSE ~eq(path, up)

\* one next() on the generator genericParents(path): f holds its locals path
\* and parent and where it is suspended; res is what next() gives
genericParents_next_as(f) ==
    IF parentDiffers(f.path, f.parent)
    THEN [frame |-> [path |-> f.parent, parent |-> parent(f.parent)],
          res |-> Ret(f.path)]
    ELSE [frame |-> f, res |-> Raise("StopIteration")]
genericParents_next(f) ==
    IF parentDiffers(f.path, f.parent)
    THEN [frame |-> [path |-> f.parent, parent |-> parent(f.parent)],
          res |-> Ret(f.parent)]
    ELSE [frame |-> f, res |-> Raise("StopIteration")]

\* g = cur.parents(); the body runs up to its loop on the first next()
ParCall ==
    /\ wstatus = "idle"
    /\ stack' = <<[path |-> cur, parent |-> parent(cur)]>>
    /\ yielded' = <<>>
    /\ wstatus' = "running"
    /\ last' = Call("parents", cur, <<>>, Ret(Null))
    /\ UNCHANGED <<cur, repo, disk, mem, zip, prev, procs, later>>

\* next(g)
ParNextItem ==
    /\ wstatus = "running"
    /\ stack' = <<genericParents_next(stack[1]).frame>>
    /\ yielded' = IF genericParents_next(stack[1]).res.ok
                  THEN Append(yielded, genericParents_next(stack[1]).res.val)
                  ELSE yielded
    /\ wstatus' = IF genericParents_next(stack[1]).res.ok THEN "running" ELSE "done"
    /\ last' = Call("next", cur, <<>>, genericParents_next(stack[1]).res)
    /\ UNCHANGED <<cur, repo, disk, mem, zip, prev, procs, later>>

\* the child() steps, taken before parents() is called
ParChild(name) == wstatus = "idle" /\ SegChild(name)

ParNext ==
    \/ \E name \in SegNames : ParChild(name)
    \/ ParCall
    \/ ParNextItem

SpecPar == SegInit /\ [][ParNext]_vars

\* the class of the path that has the names segs below the root of p
sameBackend(p, a) ==
    IF IsZip(p) THEN IsZip(a) ELSE a.cls = p.cls

\* the first n names of p
firstNames(p, n) == SubSeq(segments(p), 1, n)

\* parents(cur) is exhausted
exhausted == wstatus = "done"

\* C22 as stated: parents(p) yields p.parent(), that path's parent and so
\* on, nearest first and each once, and stops before the path that is its
\* own parent, which it does not yield; parents(root) yields nothing.
C22_ParentsStopBeforeRoot ==
    exhausted =>
        /\ Len(yielded) = IF segments(cur) = <<>> THEN 0 ELSE Len(segments(cur)) - 1
        /\ \A i \in 1..Len(yielded) :
               /\ sameBackend(cur, yielded[i])
               /\ segments(yielded[i]) = firstNames(cur, Len(segments(cur)) - i)
               /\ ~eq(yielded[i], parent(yielded[i]))

\* C22, amended: parents(p) ends after at most one next() for each name of
\* p and one more; it yields p.parent(), that path's parent and so on,
\* nearest first and each once, the root (the path that is its own parent)
\* last, and stops before it would yield the root a second time as the
\* root's parent; parents(root) yields nothing.
C22_ParentsThroughRoot ==
    /\ wstatus \in {"running", "done"} => Len(yielded) <= Len(segments(cur))
    /\ exhausted =>
        /\ Len(yielded) = Len(segments(cur))
        /\ \A i \in 1..Len(yielded) :
               /\ sameBackend(cur, yielded[i])
               /\ segments(yielded[i]) = firstNames(cur, Len(segments(cur)) - i)
               /\ (i = 1) => eq(yielded[i], parent(cur))
               /\ (i > 1) => eq(yielded[i], parent(yielded[i - 1]))
               /\ (i = Len(yielded)) = eq(yielded[i], parent(yielded[i]))
        /\ \A i \in 1..Len(yielded) : \A j \in 1..Len(yielded) :
               eq(yielded[i], yielded[j]) => i = j

\* parents() of a path two names below the root is exhausted
C22_Witness ==
    /\ exhausted
    /\ Len(segments(cur)) >= 2
    /\ Len(yielded) = Len(segments(cur))

\* parents(root) is exhausted and has yielded nothing
C22_WitnessRoot ==
    /\ exhausted
    /\ eq(cur, parent(cur))
    /\ yielded = <<>>

\* ------------------------------------------------------------------
\* bp/iso.py: the offsets of readRecords in the sectors of the image
\* ------------------------------------------------------------------

\* the length of a sector and of one read of readRecords
SectorSize == 2048
ReadSize == 256

\* The image: recs maps the offset of the first byte of a directory record
\* to its length byte and its fields, every other byte is 0; len is the
\* length of the file.

\* len(handle.read(256)) with the handle at position pos
readLen(img, pos) ==
    IF pos >= img.len THEN 0
    ELSE IF img.len - pos < ReadSize THEN img.len - pos ELSE ReadSize

\* ord(data[0]) of the data read at position pos
sizeAt(img, pos) == IF pos \in DOMAIN img.recs THEN img.recs[pos].size ELSE 0

\* offset // 2048 < (offset + size) // 2048
crosses(offset, size) == offset \div SectorSize < (offset + size) \div SectorSize

\* (offset + 2047) & ~2047
nextSector(offset) == ((offset + (SectorSize - 1)) \div SectorSize) * SectorSize

\* the position the data of this turn was read at: readRecords seeks to
\* offset and reads; when the record crosses it reads again without a seek,
\* from where the first read left the handle
readRecords_at_as(img, offset) ==
    IF crosses(offset, sizeAt(img, offset)) THEN nextSector(offset) ELSE offset
readRecords_at(img, offset) ==
    IF crosses(offset, sizeAt(img, offset)) THEN offset + readLen(img, offset)
    ELSE offset

\* one turn of the loop of readRecords from handle.seek(offset) to
\* Record.fromEntry(data): at is where data was read, offset the offset of
\* the next turn
readRecords_turn(img, offset) ==
    IF readLen(img, readRecords_at(img, offset)) = 0 \/ readLen(img, offset) = 0
    THEN Raise("IndexError")
    ELSE IF sizeAt(img, readRecords_at(img, offset)) = 0
    THEN Raise("StopIteration")
    ELSE IF sizeAt(img, readRecords_at(img, offset))
                > readLen(img, readRecords_at(img, offset))
    THEN Raise("ValueError")
    ELSE Ret([at |-> readRecords_at(img, offset),
              offset |-> (IF crosses(offset, sizeAt(img, offset))
                          THEN nextSector(offset) ELSE offset)
                         + sizeAt(img, readRecords_at(img, offset))])

\* the lengths of the records of the first sector of the extent but the
\* last, of the last one, and of the first two of the next sector
RunSizes == {250, 255}
EndSizes == {40, 48, 60}
HeadSizes == {100, 208, 248}
RunLen == 8

\* a file record of the given length at offset o
recordAt(o, size) ==
    o :> [size |-> size, extent |-> o, isdir |-> FALSE, name |-> <<"B", ";", "1">>]

RECURSIVE runFrom(_, _, _)
runFrom(o, size, n) ==
    IF n = 0 THEN <<>> ELSE recordAt(o, size) @@ runFrom(o + size, size, n - 1)

\* the images: extent 1 holds RunLen records of length a and one of length
\* b; when the file has a third sector, it holds records of length c and 50
Images ==
    {[recs |-> runFrom(SectorSize, a, RunLen) @@ recordAt(SectorSize + RunLen * a, b),
      len |-> 2 * SectorSize, dirs |-> (<<>> :> 1)] : a \in RunSizes, b \in EndSizes}
    \cup
    {[recs |-> runFrom(SectorSize, a, RunLen) @@ recordAt(SectorSize + RunLen * a, b)
                 @@ recordAt(2 * SectorSize, c) @@ recordAt(2 * SectorSize + c, 50),
      len |-> 3 * SectorSize, dirs |-> (<<>> :> 1)] :
        a \in RunSizes, b \in EndSizes, c \in HeadSizes}

\* ISO(path) after readVDs on one of the images
SectorInit ==
    /\ iso \in Images
    /\ cur = ISOPath(<<>>)
    /\ stack = <<>>
    /\ yielded = <<>>
    /\ wstatus = "idle"
    /\ last = NoCall
    /\ prev = NoCall
    /\ repo = <<>>
    /\ disk = NoDisk
    /\ mem = NoMem
    /\ zip = NoZip
    /\ procs = <<>>
    /\ origin = NoOrigin
    /\ handles = <<>>
    /\ statinfo = NoStat
    /\ childmap = <<>>

\* readRecords(self._dirs[()], ()): offset = extent * 2048
SectorReadRecords ==
    /\ wstatus = "idle"
    /\ wstatus' = "reading"
    /\ stack' = <<iso.dirs[<<>>] * SectorSize>>
    /\ UNCHANGED <<cur, last, repo, disk, yielded, mem, zip, prev, procs, later>>

\* one turn of the loop that reads a record; last keeps the offset the turn
\* began at and the length declared there
SectorRecord ==
    /\ wstatus = "reading"
    /\ readRecords_turn(iso, stack[1]).ok
    /\ stack' = <<readRecords_turn(iso, stack[1]).val.offset>>
    /\ \E record \in {Record_fromEntry(iso.recs[readRecords_turn(iso, stack[1]).val.at])} :
          IF record.isdir /\ record.name \in {SelfName, ParentName}
          THEN UNCHANGED <<yielded, iso>>
          ELSE IF record.isdir
          THEN /\ iso' = [iso EXCEPT !.dirs =
                             (Append(cur.path, record.name) :> record.extent) @@ @]
               /\ yielded' = Append(yielded, record)
          ELSE /\ yielded' = Append(yielded, [record EXCEPT !.name = fixName(@)])
               /\ iso' = iso
    /\ last' = Call("record", cur,
                    [offset |-> stack[1], size |-> sizeAt(iso, stack[1])],
                    readRecords_turn(iso, stack[1]))
    /\ UNCHANGED <<cur, repo, disk, wstatus, mem, zip, prev, procs,
                   origin, handles, statinfo, childmap>>

\* the turn that ends the generator: size == 0, or an exception
SectorReturn ==
    /\ wstatus = "reading"
    /\ ~readRecords_turn(iso, stack[1]).ok
    /\ wstatus' = IF readRecords_turn(iso, stack[1]).err = "StopIteration"
                  THEN "done" ELSE "failed"
    /\ last' = Call("record", cur,
                    [offset |-> stack[1], size |-> sizeAt(iso, stack[1])],
                    readRecords_turn(iso, stack[1]))
    /\ UNCHANGED <<cur, repo, disk, stack, yielded, mem, zip, prev, procs, later>>

SectorNext ==
    \/ SectorReadRecords
    \/ SectorRecord
    \/ SectorReturn

SpecSector == SectorInit /\ [][SectorNext]_vars

\* C23: when the record at the current offset declares a length that makes
\* it cross a 2048-byte sector boundary into a sector of the file,
\* readRecords drops it and reads the
\* next record from the first byte of the next sector, and the offsets of
\* the later records go on from there: the turn yields the record that
\* starts there and moves the offset past it, or ends the listing when no
\* record starts there.
C23_CrossingSkipsToSector ==
    (/\ last.op = "record"
     /\ (last.arg.offset + last.arg.size) \div SectorSize > last.arg.offset \div SectorSize
     /\ (last.arg.offset + last.arg.size) % SectorSize # 0
     /\ nextSector(last.arg.offset) < iso.len)
        => IF sizeAt(iso, nextSector(last.arg.offset)) = 0
           THEN last.ret = Raise("StopIteration")
           ELSE /\ last.ret.ok
                /\ last.ret.val.at = nextSector(last.arg.offset)
                /\ last.ret.val.offset = nextSector(last.arg.offset)
                                           + sizeAt(iso, nextSector(last.arg.offset))
                /\ yielded # <<>>
                /\ yielded[Len(yielded)].extent = nextSector(last.arg.offset)

\* ------------------------------------------------------------------
\* bp/filepath.py: FilePath.remove, one system call at a time
\* ------------------------------------------------------------------

\* the entry at key leaves its directory
removeKey(d, key) ==
    [d EXCEPT !.dir =
        [k \in DOMAIN d.dir \ {key} |->
            IF k = dirname(key)
            THEN DirEntry(SelectSeq(d.dir[k].names, LAMBDA y : y # basename(key)))
            ELSE d.dir[k]]]

\* unlink of the entry at key, which may not be a directory
unlinkKey(d, key) ==
    IF key \notin DOMAIN d.dir \/ d.dir[key].kind = "dir" THEN Fail("OSError", d)
    ELSE Ret(reclaim(removeKey(d, key), {}))

\* os.remove(path): the last name is not followed when it is a link
os_remove(d, path) == unlinkKey(d, lstatKey(d, path))

\* rmdir of the entry at key, which must be an empty directory
rmdirKey(d, key) ==
    IF \/ key \notin DOMAIN d.dir
       \/ d.dir[key].kind # "dir"
       \/ d.dir[key].names # <<>>
       \/ allSlashes(key)
    THEN Fail("OSError", d)
    ELSE Ret(removeKey(d, key))

\* os.rmdir(path)
os_rmdir(d, path) == rmdirKey(d, lstatKey(d, path))

\* one running remove() on path: at "start" it has yet to test isdir() and
\* islink(), at "loop" it iterates over children(), kids being the names left
RemoveFrame(path) == [path |-> path, at |-> "start", kids |-> <<>>]

\* what a system call of remove() leaves: the disk, the calls still running
\* and the path it removed (None when it removed nothing), or the error
removed(r, rest, path) ==
    [disk |-> r.val, stack |-> IF r.ok THEN rest ELSE <<>>,
     res |-> IF r.ok THEN Ret(path) ELSE Raise(r.err)]

\* a remove() that takes a link to a directory for the directory
FilePath_remove_followLinks(d, self) == FilePath_isdir(d, self)

\* self.isdir() and not self.islink()
FilePath_remove_descends(d, self) ==
    FilePath_isdir(d, self) /\ ~FilePath_islink(d, self)

\* remove() up to its next system call; f is the innermost call, outer those
\* that wait for it in their loops
FilePath_remove_next(d, outer, f) ==
    IF f.at = "start"
    THEN IF FilePath_remove_descends(d, f.path)
         THEN IF FilePath_listdir(d, f.path).ok
              THEN [disk |-> d, res |-> Ret(Null),
                    stack |-> Append(outer, [f EXCEPT !.at = "loop",
                                                !.kids = FilePath_listdir(d, f.path).val])]
              ELSE [disk |-> d, res |-> FilePath_listdir(d, f.path), stack |-> <<>>]
         ELSE removed(os_remove(d, f.path.path), outer, f.path)
    ELSE IF f.kids = <<>>
    THEN removed(os_rmdir(d, f.path.path), outer, f.path)
    ELSE IF ~FilePath_child(f.path, Head(f.kids)).ok
    THEN [disk |-> d, res |-> FilePath_child(f.path, Head(f.kids)), stack |-> <<>>]
    ELSE [disk |-> d, res |-> Ret(Null),
          stack |-> outer \o <<[f EXCEPT !.kids = Tail(f.kids)],
                               RemoveFrame(FilePath_child(f.path, Head(f.kids)).val)>>]

\* a disk with nothing but the directory /w; nothing is running
RemoveInit ==
    /\ cur = WalkRoot
    /\ disk = EmptyRoot
    /\ mem = NoMem
    /\ stack = <<>>
    /\ yielded = <<>>
    /\ wstatus = "setup"
    /\ last = NoCall
    /\ repo = Null
    /\ IoOff
    /\ LaterOff

\* path.remove() is called on an entry below /w; last keeps the disk it is
\* called on
RemoveStart(path) ==
    /\ wstatus = "setup"
    /\ cur' = path
    /\ stack' = <<RemoveFrame(path)>>
    /\ wstatus' = "running"
    /\ last' = Call("remove", path, disk, Ret(Null))
    /\ UNCHANGED <<disk, mem, yielded, repo, zip, prev, procs, later>>

\* remove() runs on to its next system call and makes it
RemoveStep ==
    /\ wstatus = "running"
    /\ \E r \in {FilePath_remove_next(disk, SubSeq(stack, 1, Len(stack) - 1),
                                      stack[Len(stack)])} :
           /\ disk' = r.disk
           /\ stack' = r.stack
           /\ yielded' = IF r.res.ok /\ r.res.val # Null
                         THEN Append(yielded, r.res.val.path) ELSE yielded
           /\ wstatus' = IF ~r.res.ok THEN r.res.err
                         ELSE IF r.stack = <<>> THEN "done" ELSE "running"
    /\ UNCHANGED <<mem, notWalk>>

RemoveNext ==
    \/ \E where \in makeUnder, name \in WalkNames : FsCreateDirectory(child(where, name).val)
    \/ \E where \in makeUnder, name \in WalkNames : FsCreate(child(where, name).val)
    \/ \E where \in makeUnder, name \in WalkNames : \E target \in realDirs(disk) :
           FsLinkTo(target, child(where, name).val)
    \/ \E k \in below(disk) : RemoveStart(FilePath(k))
    \/ RemoveStep

SpecRemove == RemoveInit /\ [][RemoveNext]_vars

\* the keys of d at and below key
subtree(d, key) ==
    {k \in DOMAIN d.dir : k = key \/ startswith(k, key \o <<SEP>>)}

\* d without the keys gone, whose names have left their directories
without(d, gone) ==
    [k \in DOMAIN d.dir \ gone |->
        IF d.dir[k].kind = "dir"
        THEN DirEntry(SelectSeq(d.dir[k].names, LAMBDA y : joinpath(k, y) \notin gone))
        ELSE d.dir[k]]

\* remove() was called on a real directory, on a link to a directory
onDirectory == last.op = "remove" /\ last.arg.dir[cur.path].kind = "dir"
onDirectoryLink ==
    /\ last.op = "remove"
    /\ last.arg.dir[cur.path].kind = "link"
    /\ FilePath_isdir(last.arg, cur)

\* C25: remove() on a real directory removes every descendant before the
\* directory that contains it and the directory itself last, raises nothing
\* and leaves nothing of the subtree and everything else as it was; on a
\* symbolic link to a directory it removes the link alone and leaves the
\* directory the link leads to and all below it in place.
C25_RemovePostOrder ==
    /\ (onDirectory \/ onDirectoryLink) => wstatus \in {"running", "done"}
    /\ onDirectory =>
        /\ \A i \in 1..Len(yielded) : \A j \in 1..Len(yielded) :
               /\ yielded[i] = yielded[j] => i = j
               /\ startswith(yielded[j], yielded[i] \o <<SEP>>) => j < i
        /\ \A i \in 1..Len(yielded) :
               /\ yielded[i] \in subtree(last.arg, cur.path)
               /\ subtree(disk, yielded[i]) = {}
        /\ disk.dir = without(last.arg, {yielded[i] : i \in 1..Len(yielded)})
        /\ wstatus = "done" =>
               /\ {yielded[i] : i \in 1..Len(yielded)} = subtree(last.arg, cur.path)
               /\ yielded[Len(yielded)] = cur.path
               /\ subtree(disk, cur.path) = {}
    /\ (onDirectoryLink /\ wstatus = "done") =>
        /\ yielded = <<cur.path>>
        /\ disk.dir = without(last.arg, {cur.path})
        /\ \A k \in subtree(last.arg, statKey(last.arg, cur.path)) \ {cur.path} :
               /\ k \in DOMAIN disk.dir
               /\ k # dirname(cur.path) => disk.dir[k] = last.arg.dir[k]
        /\ disk.data = last.arg.data

\* a directory that held a directory with a file in it has been removed
C25_Witness ==
    /\ onDirectory
    /\ wstatus = "done"
    /\ Len(yielded) = 3
    /\ \E k \in subtree(last.arg, cur.path) : last.arg.dir[k].kind = "file"
    /\ \E k \in subtree(last.arg, cur.path) : k # cur.path /\ last.arg.dir[k].kind = "dir"

\* a link to a directory that holds an entry has been removed
C25_WitnessLink ==
    /\ onDirectoryLink
    /\ wstatus = "done"
    /\ last.arg.dir[statKey(last.arg, cur.path)].names # <<>>

\* ------------------------------------------------------------------
\* bp/filepath.py: FilePath.moveTo and FilePath.copyTo, one system call
\* at a time; /m is the mount point of a second filesystem
\* ------------------------------------------------------------------

MountPoint == <<SEP, "m">>

\* the filesystem a key lies on
deviceOf(key) ==
    IF key = MountPoint \/ startswith(key, MountPoint \o <<SEP>>) THEN 2 ELSE 1

\* os.rename(src, dst) where filesystems are mounted: EXDEV when the entry
\* would change filesystem
os_rename_mounted(d, src, dst) ==
    IF /\ lstatKey(d, src) \in DOMAIN d.dir
       /\ lstatKey(d, dst) # <<>>
       /\ deviceOf(lstatKey(d, src)) # deviceOf(lstatKey(d, dst))
    THEN Fail("EXDEV", d)
    ELSE os_rename(d, src, dst)

\* exists(), isdir(), isfile() on a value that has no snapshot yet
freshQuery(q, d, self) == FilePath_query(q, d, self, NoStat).res.val

\* one running copyTo(destination) on src: at "start" it has yet to look at
\* src, at "loop" it iterates over children(), at "write" it copies the
\* file; create: destination.alwaysCreate
CopyFrame(src, dst, create) ==
    [src |-> src, dst |-> dst, at |-> "start", kids |-> <<>>, create |-> create,
     rd |-> 0, fd |-> 0]

\* destination.open('w')
FilePath_open_w(d, self, alwaysCreate) ==
    IF alwaysCreate THEN FilePath_create(d, self) ELSE os_open_trunc(d, self.path)

\* copyTo on a directory: destination.createDirectory() unless it exists,
\* then the loop over children()
copyToDirectory(d, outer, f, mkdir) ==
    IF ~mkdir.ok THEN [disk |-> d, stack |-> <<>>, res |-> Raise(mkdir.err)]
    ELSE IF ~FilePath_listdir(mkdir.val, f.src).ok
    THEN [disk |-> mkdir.val, stack |-> <<>>, res |-> FilePath_listdir(mkdir.val, f.src)]
    ELSE [disk |-> mkdir.val, res |-> Ret(Null),
          stack |-> Append(outer, [f EXCEPT !.at = "loop",
                                      !.kids = FilePath_listdir(mkdir.val, f.src).val])]

\* copyTo on a file: writefile = destination.open('w'), readfile = self.open()
copyToFile(d, outer, f, writefile) ==
    IF ~writefile.ok THEN [disk |-> d, stack |-> <<>>, res |-> Raise("IOError")]
    ELSE [disk |-> writefile.val.disk, res |-> Ret(Null),
          stack |-> Append(outer, [f EXCEPT !.at = "write",
                                      !.fd = writefile.val.fd,
                                      !.rd = os_open(d, f.src.path).val])]

\* copyTo(followLinks=True) up to its next system call; f is the innermost
\* call, outer those that wait in their loops; flush: the bytes that are
\* still buffered reach the file now, and the files are closed
FilePath_copyTo_next(d, outer, f, flush) ==
    IF f.at = "start"
    THEN IF freshQuery("isdir", d, f.src)
         THEN copyToDirectory(d, outer, f,
                  IF freshQuery("exists", d, f.dst) THEN Ret(d)
                  ELSE FilePath_createDirectory(d, f.dst))
         ELSE IF freshQuery("isfile", d, f.src)
         THEN copyToFile(d, outer, f, FilePath_open_w(d, f.dst, f.create))
         ELSE IF ~freshQuery("exists", d, f.src)
         THEN [disk |-> d, stack |-> <<>>, res |-> Raise("OSError")]
         ELSE [disk |-> d, stack |-> <<>>, res |-> Raise("NotImplementedError")]
    ELSE IF f.at = "loop"
    THEN IF f.kids = <<>> THEN [disk |-> d, stack |-> outer, res |-> Ret(Null)]
         ELSE IF ~FilePath_child(f.dst, Head(f.kids)).ok
         THEN [disk |-> d, stack |-> <<>>, res |-> FilePath_child(f.dst, Head(f.kids))]
         ELSE [disk |-> d, res |-> Ret(Null),
               stack |-> outer \o
                   <<[f EXCEPT !.kids = Tail(f.kids)],
                     CopyFrame(FilePath_child(f.src, Head(f.kids)).val,
                               FilePath_child(f.dst, Head(f.kids)).val, FALSE)>>]
    ELSE IF flush \/ Len(d.data[f.fd]) >= Len(d.data[f.rd])
    THEN [disk |-> os_write(d, f.fd, SubSeq(d.data[f.rd], Len(d.data[f.fd]) + 1,
                                            Len(d.data[f.rd]))),
          stack |-> outer, res |-> Ret(Null)]
    ELSE [disk |-> os_write(d, f.fd, <<d.data[f.rd][Len(d.data[f.fd]) + 1]>>),
          stack |-> Append(outer, f), res |-> Ret(Null)]

\* the path moveTo copies to when rename has failed with EXDEV
moveTo_secsib_as(destination, token) == Ret(destination)
moveTo_secsib(destination, token) ==
    FilePath_temporarySibling(destination, token, <<>>)

\* the disk with the two filesystems and nothing on them
MoveBase ==
    [dir |-> (<<SEP>> :> DirEntry(<<<<"w">>, <<"m">>>>))
               @@ (WalkRoot.path :> DirEntry(<<>>)) @@ (MountPoint :> DirEntry(<<>>)),
     data |-> <<>>]

\* what is moved: a file, a directory with a file and a directory in it
MoveSources == {"file", "dir"}
\* what is at the destination: nothing, a file, an empty directory, a
\* directory that is not empty
MoveTargets == {"none", "file", "empty", "full"}

\* the disk with the source at src
withSource(d, src, what) ==
    IF what = "file"
    THEN reclaim(FilePath_setContent(d, src, <<"x", "y">>, <<"s">>).val, {})
    ELSE FilePath_createDirectory(
             reclaim(FilePath_setContent(FilePath_createDirectory(d, src).val,
                                         child(src, <<"f">>).val, <<"x", "y">>,
                                         <<"s">>).val, {}),
             child(src, <<"d">>).val).val

\* the disk with the previous state of the destination dst
withTarget(d, dst, what) ==
    CASE what = "none" -> d
      [] what = "file" -> reclaim(FilePath_setContent(d, dst, <<"o">>, <<"s">>).val, {})
      [] what = "empty" -> FilePath_createDirectory(d, dst).val
      [] what = "full" ->
             reclaim(FilePath_setContent(FilePath_createDirectory(d, dst).val,
                                         child(dst, <<"g">>).val, <<"o">>, <<"s">>).val, {})

\* /w/a is to be moved to b on the other filesystem or beside it; last keeps
\* the call and prev the disk before it
MoveInit ==
    /\ cur = child(WalkRoot, <<"a">>).val
    /\ \E dstdir \in {WalkRoot, FilePath(MountPoint)} :
       \E s \in MoveSources : \E t \in MoveTargets :
           /\ last = Call("moveTo", cur, child(dstdir, <<"b">>).val, Ret(Null))
           /\ disk = withTarget(withSource(MoveBase, cur, s),
                                child(dstdir, <<"b">>).val, t)
           /\ prev = Call("disk", cur, disk, Ret(Null))
    /\ wstatus = "idle"
    /\ stack = <<>>
    /\ yielded = <<>>
    /\ procs = <<>>
    /\ repo = Null
    /\ mem = NoMem
    /\ zip = NoZip
    /\ LaterOff

\* moveTo: os.rename(self.path, destination.path)
MoveRename ==
    /\ wstatus = "idle"
    /\ \E r \in {os_rename_mounted(disk, cur.path, last.arg.path)} :
           /\ disk' = r.val
           /\ wstatus' = IF r.ok THEN "done" ELSE r.err
    /\ UNCHANGED <<cur, last, prev, repo, mem, zip, stack, yielded, procs, later>>

\* EXDEV: secsib = destination.temporarySibling(); self.copyTo(secsib) begins
MoveSecsib(token) ==
    /\ wstatus = "EXDEV"
    /\ moveTo_secsib(last.arg, token).ok
    /\ procs' = <<moveTo_secsib(last.arg, token).val>>
    /\ stack' = <<CopyFrame(cur, moveTo_secsib(last.arg, token).val, TRUE)>>
    /\ wstatus' = "copying"
    /\ UNCHANGED <<cur, last, prev, repo, mem, zip, disk, yielded, later>>

\* self.copyTo(secsib) runs on to its next system call and makes it
MoveCopy(flush) ==
    /\ wstatus = "copying"
    /\ \E r \in {FilePath_copyTo_next(disk, SubSeq(stack, 1, Len(stack) - 1),
                                      stack[Len(stack)], flush)} :
           /\ disk' = r.disk
           /\ stack' = r.stack
           /\ wstatus' = IF ~r.res.ok THEN r.res.err
                         ELSE IF r.stack = <<>> THEN "copied" ELSE "copying"
    /\ UNCHANGED <<cur, last, prev, repo, mem, zip, yielded, procs, later>>

\* secsib.moveTo(destination): os.rename(secsib.path, destination.path)
MoveInstall ==
    /\ wstatus = "copied"
    /\ \E r \in {os_rename_mounted(disk, procs[1].path, last.arg.path)} :
           /\ disk' = reclaim(r.val, {})
           /\ wstatus' = IF r.ok THEN "installed" ELSE "OSError"
    /\ UNCHANGED <<cur, last, prev, repo, mem, zip, stack, yielded, procs, later>>

\* mysecsib = self.temporarySibling(); self.moveTo(mysecsib);
\* mysecsib.remove() begins
MoveAside(token) ==
    /\ wstatus = "installed"
    /\ FilePath_temporarySibling(cur, token, <<>>).ok
    /\ \E r \in {os_rename_mounted(disk, cur.path,
                     FilePath_temporarySibling(cur, token, <<>>).val.path)} :
           /\ disk' = r.val
           /\ wstatus' = IF r.ok THEN "removing" ELSE "OSError"
    /\ procs' = Append(procs, FilePath_temporarySibling(cur, token, <<>>).val)
    /\ stack' = <<RemoveFrame(FilePath_temporarySibling(cur, token, <<>>).val)>>
    /\ UNCHANGED <<cur, last, prev, repo, mem, zip, yielded, later>>

\* mysecsib.remove() runs on to its next system call and makes it
MoveRemove ==
    /\ wstatus = "removing"
    /\ \E r \in {FilePath_remove_next(disk, SubSeq(stack, 1, Len(stack) - 1),
                                      stack[Len(stack)])} :
           /\ disk' = r.disk
           /\ stack' = r.stack
           /\ wstatus' = IF ~r.res.ok THEN r.res.err
                         ELSE IF r.stack = <<>> THEN "done" ELSE "removing"
    /\ UNCHANGED <<cur, last, prev, repo, mem, zip, yielded, procs, later>>

MoveNext ==
    \/ MoveRename
    \/ \E token \in Tokens : MoveSecsib(token)
    \/ \E flush \in BOOLEAN : MoveCopy(flush)
    \/ MoveInstall
    \/ \E token \in Tokens : MoveAside(token)
    \/ MoveRemove

SpecMove == MoveInit /\ [][MoveNext]_vars

\* what an observer finds at path and below it: for every entry its kind,
\* the bytes of a file and the names in a directory; nothing when there is
\* no entry at path
seenAt(d, path) ==
    [s \in {SubSeq(k, Len(path) + 1, Len(k)) : k \in subtree(d, path)} |->
        IF d.dir[path \o s].kind = "file"
        THEN [kind |-> "file", data |-> d.data[d.dir[path \o s].ino], names |-> {}]
        ELSE [kind |-> d.dir[path \o s].kind, data |-> <<>>,
              names |-> {d.dir[path \o s].names[i] :
                            i \in 1..Len(d.dir[path \o s].names)}]]

\* the call fell back to copying: rename failed with EXDEV
fellBack == wstatus \notin {"idle", "done", "OSError"} \/ procs # <<>>

\* C24: when moveTo falls back to copying after EXDEV, the destination shows
\* its previous state until one rename puts the complete copy there, and
\* the source is there in full until the destination holds the complete
\* copy: in every state one of the two holds the full content, and when
\* moveTo has returned the destination holds it and the source is gone.
C24_MoveNeverPartial ==
    fellBack =>
        /\ seenAt(disk, last.arg.path) \in
               {seenAt(prev.arg, last.arg.path), seenAt(prev.arg, cur.path)}
        /\ seenAt(disk, cur.path) \in {seenAt(prev.arg, cur.path), <<>>}
        /\ \/ seenAt(disk, cur.path) = seenAt(prev.arg, cur.path)
           \/ seenAt(disk, last.arg.path) = seenAt(prev.arg, cur.path)
        /\ wstatus \in {"removing", "done"} =>
               /\ seenAt(disk, last.arg.path) = seenAt(prev.arg, cur.path)
               /\ seenAt(disk, cur.path) = <<>>
        /\ wstatus \in {"EXDEV", "copying", "copied", "OSError", "IOError"} =>
               /\ seenAt(disk, last.arg.path) = seenAt(prev.arg, last.arg.path)
               /\ seenAt(disk, cur.path) = seenAt(prev.arg, cur.path)

\* a directory has been moved onto an empty directory of the other
\* filesystem, and its copy has gone from the source's filesystem
C24_Witness ==
    /\ fellBack
    /\ wstatus = "done"
    /\ prev.arg.dir[cur.path].kind = "dir"
    /\ seenAt(prev.arg, last.arg.path) # <<>>
    /\ seenAt(disk, last.arg.path) = seenAt(prev.arg, cur.path)
    /\ Len(procs) = 2
    /\ procs[2].path \notin DOMAIN disk.dir

\* the copy holds part of the file while the destination holds its old file
C24_WitnessPartial ==
    /\ wstatus = "copying"
    /\ stack[Len(stack)].at = "write"
    /\ Len(disk.data[stack[Len(stack)].fd]) = 1
    /\ seenAt(prev.arg, last.arg.path) # <<>>

\* ------------------------------------------------------------------
\* bp/filepath.py: FilePath.setContent when a system call fails
\* ------------------------------------------------------------------

\* a setContent that unlinks the sibling when the write has failed
setContentWriteFails_cleansUp(created, sib, content, n) ==
    IF ~created.ok THEN created
    ELSE Fail("IOError", os_remove(created.val.disk, sib.path).val)

\* setContent once sib.open('w') has returned or raised, when f.write or
\* f.close raises IOError with n bytes of content in the file (no space
\* left on the device): the finally clause closes f and nothing else
setContentWriteFails(created, sib, content, n) ==
    IF ~created.ok THEN created
    ELSE Fail("IOError", os_write(created.val.disk, created.val.fd, SubSeq(content, 1, n)))

\* what is at /w/a before the calls: nothing, a file, a directory
FailTargets == {"none", "file", "empty"}

FailInit ==
    /\ cur = child(WalkRoot, <<"a">>).val
    /\ \E t \in FailTargets : disk = withTarget(EmptyRoot, cur, t)
    /\ last = NoCall
    /\ prev = NoCall
    /\ wstatus = "idle"
    /\ stack = <<>>
    /\ yielded = <<>>
    /\ procs = <<>>
    /\ repo = Null
    /\ mem = NoMem
    /\ zip = NoZip
    /\ LaterOff

\* the call record of cur.setContent(content) that left r: last keeps the
\* sibling's name
setContentCall(token, r) ==
    Call("setContent", cur, FilePath_temporarySibling(cur, token, defaultExt).val,
         IF r.ok THEN Ret(Null) ELSE Raise(r.err))

\* cur.setContent(content), every write succeeding; prev keeps the disk
\* before the call
FailSetContent(content, token) ==
    /\ \E r \in {FilePath_setContent(disk, cur, content, token)} :
           /\ disk' = reclaim(r.val, {})
           /\ last' = setContentCall(token, r)
    /\ prev' = Call("disk", cur, disk, Ret(Null))
    /\ UNCHANGED <<cur, repo, mem, zip, stack, yielded, wstatus, procs, later>>

\* cur.setContent(content), the write failing after n bytes
FailSetContentNoSpace(content, token, n) ==
    /\ \E r \in {setContentWriteFails(
                    FilePath_create(disk,
                        FilePath_temporarySibling(cur, token, defaultExt).val),
                    FilePath_temporarySibling(cur, token, defaultExt).val,
                    content, n)} :
           /\ disk' = reclaim(r.val, {})
           /\ last' = setContentCall(token, r)
    /\ prev' = Call("disk", cur, disk, Ret(Null))
    /\ UNCHANGED <<cur, repo, mem, zip, stack, yielded, wstatus, procs, later>>

\* the sibling a failed call left is removed by hand
FailCleanUp ==
    /\ last.op = "setContent"
    /\ os_remove(disk, last.arg.path).ok
    /\ disk' = os_remove(disk, last.arg.path).val
    /\ last' = NoCall
    /\ prev' = NoCall
    /\ UNCHANGED <<cur, repo, mem, zip, stack, yielded, wstatus, procs, later>>

FailNext ==
    \/ \E c \in Contents, t \in Tokens : FailSetContent(c, t)
    \/ \E c \in Contents, t \in Tokens : \E n \in 0..(Len(c) - 1) :
           FailSetContentNoSpace(c, t, n)
    \/ FailCleanUp

SpecFail == FailInit /\ [][FailNext]_vars

\* the last setContent raised after its sibling had been opened: in the
\* write or in the rename
raisedAfterOpen ==
    /\ last.op = "setContent"
    /\ ~last.ret.ok
    /\ last.arg.path \notin DOMAIN prev.arg.dir

\* C26: when setContent fails while it writes the temporary sibling or
\* while it renames it onto the target, the target holds what it held
\* before, the sibling is still on disk and nothing else has changed, and
\* the caller gets the error of the call that failed: no second attempt is
\* made.
C26_FailedSetContent ==
    raisedAfterOpen =>
        /\ seenAt(disk, cur.path) = seenAt(prev.arg, cur.path)
        /\ last.arg.path \in DOMAIN disk.dir
        /\ disk.dir[last.arg.path].kind = "file"
        /\ DOMAIN disk.dir = DOMAIN prev.arg.dir \cup {last.arg.path}
        /\ \A k \in DOMAIN prev.arg.dir :
               k # dirname(cur.path) => seenAt(disk, k) = seenAt(prev.arg, k)
        /\ last.ret.err \in {"IOError", "OSError"}

\* the rename onto a directory failed and left the whole content in the sibling
C26_Witness ==
    /\ raisedAfterOpen
    /\ last.ret.err = "OSError"
    /\ disk.dir[cur.path].kind = "dir"
    /\ Len(disk.data[disk.dir[last.arg.path].ino]) = 2

\* the write failed and left a part of the content in the sibling, the
\* target holding its old file
C26_WitnessNoSpace ==
    /\ raisedAfterOpen
    /\ last.ret.err = "IOError"
    /\ cur.path \in DOMAIN disk.dir
    /\ disk.dir[cur.path].kind = "file"
    /\ Len(disk.data[disk.dir[last.arg.path].ino]) = 1

\* handle i has not been written to: write() moves the position
unwritten(i) == handles[i].pos = 0

\* C27 as stated: closing a handle that was never written to leaves the
\* store exactly as it was just before the close; it creates no entry and
\* replaces no content stored under the key while the handle was open.
C27_UnwrittenCloseKeepsStore ==
    [][\A i \in 1..Len(handles) : (closing(i) /\ unwritten(i)) => mem' = mem]_vars

\* C27, amended: a handle that is never written to keeps the buffer that
\* open() gave it, the content stored under its key at that moment or the
\* empty string when there was none, and its close stores that buffer
\* under its key whatever is stored there by then, leaving every other key
\* and the directories as they were.
C27_UnwrittenCloseStoresOpened ==
    [][/\ Len(handles') > Len(handles) =>
              handles'[Len(handles')].buf =
                  IF handles'[Len(handles')].key \in DOMAIN mem.store
                  THEN mem.store[handles'[Len(handles')].key] ELSE <<>>
       /\ \A i \in 1..Len(handles) :
              (unwritten(i) /\ handles'[i].pos = 0) => handles'[i].buf = handles[i].buf
       /\ \A i \in 1..Len(handles) : (closing(i) /\ unwritten(i)) =>
              /\ mem'.store = (handles[i].key :> handles[i].buf) @@ mem.store
              /\ mem'.dirs = mem.dirs]_vars

\* a handle that was never written to has been closed last and its empty
\* buffer is what its key holds, although another handle on that key was
\* closed with b'v' in it
C27_Witness ==
    /\ last.op = "close"
    /\ \E i \in 1..Len(handles) : \E j \in 1..Len(handles) :
           /\ handles[i].closed /\ handles[i].pos = 0 /\ handles[i].buf = <<>>
           /\ handles[i].key = last.self.path
           /\ handles[j].closed /\ handles[j].key = handles[i].key
           /\ handles[j].buf = <<"v">>
           /\ mem.store[handles[i].key] = <<>>

\* ------------------------------------------------------------------
\* The stat snapshot across a value's own writes (bp/filepath.py)
\* ------------------------------------------------------------------

\* the path cur is moved to
MoveDestination == FilePath(<<SEP, "w", SEP, "b">>)

\* the calls of remove() that are still running are run to their end: the
\* disk they leave, or the error of the system call that failed
RECURSIVE FilePath_remove_run(_, _)
FilePath_remove_run(d, running) ==
    IF running = <<>> THEN Ret(d)
    ELSE IF ~FilePath_remove_next(d, SubSeq(running, 1, Len(running) - 1),
                                  running[Len(running)]).res.ok
    THEN Fail(FilePath_remove_next(d, SubSeq(running, 1, Len(running) - 1),
                                   running[Len(running)]).res.err,
              FilePath_remove_next(d, SubSeq(running, 1, Len(running) - 1),
                                   running[Len(running)]).disk)
    ELSE FilePath_remove_run(
             FilePath_remove_next(d, SubSeq(running, 1, Len(running) - 1),
                                  running[Len(running)]).disk,
             FilePath_remove_next(d, SubSeq(running, 1, Len(running) - 1),
                                  running[Len(running)]).stack)

\* remove() on a value that holds the snapshot st: self.isdir() answers
\* through the snapshot, the children are fresh values
FilePath_remove_self(d, self, st) ==
    IF FilePath_query("isdir", d, self, st).res.val /\ ~FilePath_islink(d, self)
    THEN IF FilePath_listdir(d, self).ok
         THEN FilePath_remove_run(d, <<[path |-> self, at |-> "loop",
                                        kids |-> FilePath_listdir(d, self).val]>>)
         ELSE Fail(FilePath_listdir(d, self).err, d)
    ELSE os_remove(d, self.path)

\* cur.setContent(content): the snapshot is left as it was; the call records
\* the snapshot the value held. prev is kept for the queries only: it is
\* the call a query follows
StaleSetContent(content, token) ==
    /\ disk' = reclaim(FilePath_setContent(disk, cur, content, token).val, {})
    /\ last' = Call("setContent", cur, [content |-> content, st |-> statinfo],
                    IF FilePath_setContent(disk, cur, content, token).ok
                    THEN Ret(Null)
                    ELSE Raise(FilePath_setContent(disk, cur, content, token).err))
    /\ prev' = NoCall
    /\ UNCHANGED <<cur, repo, stack, yielded, wstatus, mem, zip, procs, later>>

\* cur.remove(): self.changed() once everything was removed; when a system
\* call fails the snapshot is the one isdir() answered from
StaleRemove ==
    /\ disk' = FilePath_remove_self(disk, cur, statinfo).val
    /\ statinfo' = IF FilePath_remove_self(disk, cur, statinfo).ok THEN NoStat
                   ELSE FilePath_query("isdir", disk, cur, statinfo).st
    /\ last' = Call("remove", cur, statinfo,
                    IF FilePath_remove_self(disk, cur, statinfo).ok THEN Ret(Null)
                    ELSE Raise(FilePath_remove_self(disk, cur, statinfo).err))
    /\ prev' = NoCall
    /\ UNCHANGED <<cur, repo, stack, yielded, wstatus, mem, zip, procs,
                   origin, handles, childmap, iso>>

\* cur.moveTo(MoveDestination) within one filesystem: os.rename, then
\* self.changed() when it succeeded; any error here is not EXDEV and is raised
StaleMoveTo ==
    /\ disk' = os_rename(disk, cur.path, MoveDestination.path).val
    /\ statinfo' = IF os_rename(disk, cur.path, MoveDestination.path).ok
                   THEN NoStat ELSE statinfo
    /\ last' = Call("moveTo", cur, statinfo,
                    IF os_rename(disk, cur.path, MoveDestination.path).ok
                    THEN Ret(Null)
                    ELSE Raise(os_rename(disk, cur.path, MoveDestination.path).err))
    /\ prev' = NoCall
    /\ UNCHANGED <<cur, repo, stack, yielded, wstatus, mem, zip, procs,
                   origin, handles, childmap, iso>>

\* the directory made through another value: at the path cur is moved to
StaleDirs == {MoveDestination}

StaleNext ==
    \/ \E q \in StatQueries : StatQuery(q)
    \/ StatChanged
    \/ \E c \in StatContents, t \in Tokens : StaleSetContent(c, t)
    \/ StaleRemove
    \/ StaleMoveTo
    \/ \E path \in StaleDirs : FsCreateDirectory(path)

SpecStale == StatInit /\ [][StaleNext]_vars

\* a snapshot that is reused: stat() found the path
found(st) == st.known /\ st.exists

\* what a query answers from the snapshot st
staleAnswer(q, st) ==
    CASE q = "exists" -> Ret(st.exists)
      [] q = "isdir" -> Ret(st.kind = "dir")
      [] q = "isfile" -> Ret(st.kind = "file")
      [] q = "getsize" -> Ret(st.size)

\* what a query answers of a regular file that holds content
freshAnswer(q, content) ==
    CASE q = "exists" -> Ret(TRUE)
      [] q = "isdir" -> Ret(FALSE)
      [] q = "isfile" -> Ret(TRUE)
      [] q = "getsize" -> Ret(Len(content))

\* C28 as stated: right after p.setContent(b) returned on a value p that
\* had a snapshot cached, p.getsize() returns len(b) and p.exists() True.
C28_SetContentRefreshes ==
    (/\ prev.op = "setContent"
     /\ prev.ret.ok
     /\ prev.arg.st.known
     /\ last.op \in {"getsize", "exists"}) =>
        last.ret = freshAnswer(last.op, prev.arg.content)

\* C28: p.setContent(b) leaves p's snapshot alone: the query that follows
\* it answers from the snapshot p held when that snapshot is of a path that
\* was found, and of the new file (len(b), True) only when p held no such
\* snapshot; after a remove() or a moveTo() that returned, the query answers
\* from the disk.
C28_SetContentKeepsSnapshot ==
    [][/\ (/\ last.op = "setContent"
            /\ last.ret.ok
            /\ last'.op \in StatQueries) =>
               last'.ret = IF found(last.arg.st)
                           THEN staleAnswer(last'.op, last.arg.st)
                           ELSE freshAnswer(last'.op, last.arg.content)
       /\ (/\ last.op \in {"remove", "moveTo"}
            /\ last.ret.ok
            /\ last'.op \in StatQueries) =>
               /\ statinfo = NoStat
               /\ last'.ret = FilePath_query(last'.op, disk, cur, NoStat).res]_vars

\* getsize() right after a setContent that changed the length of the file
\* the value had a snapshot of
C28_Witness ==
    /\ prev.op = "setContent"
    /\ prev.ret.ok
    /\ found(prev.arg.st)
    /\ prev.arg.st.size # Len(prev.arg.content)
    /\ last.op = "getsize"

\* a query right after a remove() of a path the value had a snapshot of
C28_WitnessRemove ==
    /\ prev.op = "remove"
    /\ prev.ret.ok
    /\ found(prev.arg)
    /\ last.op = "exists"

\* ------------------------------------------------------------------
\* Writing into an archive that is open (bp/zippath.py)
\* ------------------------------------------------------------------

\* ZipArchive(archivePathname, "a") on an archive that has fewer than
\* MaxZipEntries entries: the index is built from the entries it has then
ZipWriteInit ==
    /\ \E n \in 0..(MaxZipEntries - 1) : \E names \in [1..n -> EntryNames] :
           zip = [zipfileOf(names) EXCEPT !.mode = "a"]
    /\ childmap = ZipArchive_childmap(<<>>, zip, 1)
    /\ cur = ZipArchive
    /\ last = NoCall
    /\ prev = NoCall
    /\ repo = <<>>
    /\ disk = NoDisk
    /\ mem = NoMem
    /\ procs = <<>>
    /\ stack = <<>>
    /\ yielded = <<>>
    /\ wstatus = "idle"
    /\ origin = NoOrigin
    /\ handles = <<>>
    /\ statinfo = NoStat
    /\ iso = NoIso

\* cur.setContent(content): zipfile.writestr and nothing else; the call
\* records whether the archive had an entry of that name
ZipWriteSetContent(content) ==
    /\ Len(zip.filelist) < MaxZipEntries
    /\ zip' = IF ZipPath_setContent(zip, cur, content).ok
              THEN ZipPath_setContent(zip, cur, content).val ELSE zip
    /\ last' = Call("setContent", cur,
                    [content |-> content, isnew |-> ~ZipPath_isfile(zip, cur)],
                    IF ZipPath_setContent(zip, cur, content).ok THEN Ret(Null)
                    ELSE Raise(ZipPath_setContent(zip, cur, content).err))
    /\ UNCHANGED <<cur, repo, disk, stack, yielded, wstatus, mem, prev, procs, later>>

ZipWriteNext ==
    \/ \E name \in IndexNames : IndexChild(name)
    \/ IndexParent
    \/ \E q \in {"isdir", "isfile", "exists"} : IndexQuery(q)
    \/ IndexListdir
    \/ \E c \in Chunks : ZipWriteSetContent(c)

SpecZipWrite == ZipWriteInit /\ [][ZipWriteNext]_vars

\* the paths between the archive and p, both left out
properAncestors(p) ==
    {ZipPath(join(SubSeq(split(p.path, SEP), 1, k), SEP)) :
        k \in 1..(Len(split(p.path, SEP)) - 1)}

\* p.parent().listdir() returns a list that has p.basename()
listedByParent(cm, z, p) ==
    /\ ZipPath_listdir(cm, z, ZipPath_parent(p)).ok
    /\ \E i \in DOMAIN ZipPath_listdir(cm, z, ZipPath_parent(p)).val :
           ZipPath_listdir(cm, z, ZipPath_parent(p)).val[i]
               = split(p.path, SEP)[Len(split(p.path, SEP))]

\* C29: once p.setContent(b) has returned on a path p the archive had no
\* entry for, p.isfile() is True, every path between the archive and p
\* answers isdir() True, and p.parent().listdir() has p.basename().
C29_IndexFollowsWrites ==
    (/\ last.op = "setContent"
     /\ last.ret.ok
     /\ last.arg.isnew
     /\ last.self.cls = "ZipPath") =>
        /\ ZipPath_isfile(zip, last.self)
        /\ \A a \in properAncestors(last.self) : ZipPath_isdir(childmap, a)
        /\ listedByParent(childmap, zip, last.self)

\* ------------------------------------------------------------------
\* Finding a directory of an image (bp/iso.py)
\* ------------------------------------------------------------------

\* the extent numbers of the directories of the images; the root is at the first
RootExtent == 1
DirExtents == {1, 2}

\* the turns of the first loop of findDir that are followed
MaxTurns == 4

\* the volume descriptors from sector 16 on, up to the terminator
Descriptors ==
    {<<"PRIMARYVD", "FINALVD">>, <<"FINALVD">>, <<"OTHERVD", "FINALVD">>,
     <<"OTHERVD", "PRIMARYVD", "FINALVD">>}

\* ISO.readVDs from descriptor i on: the terminator ends the scan, a primary
\* descriptor caches the extent of the root directory
RECURSIVE ISO_readVDs(_, _, _)
ISO_readVDs(dirs, vds, i) ==
    IF vds[i] = "FINALVD" THEN dirs
    ELSE IF vds[i] = "PRIMARYVD"
    THEN ISO_readVDs((<<>> :> RootExtent) @@ dirs, vds, i + 1)
    ELSE ISO_readVDs(dirs, vds, i + 1)

\* the directory records of the images
FindRecords(names) ==
    {[extent |-> e, isdir |-> f, name |-> n] :
        e \in DirExtents, f \in BOOLEAN, n \in names}

\* what a directory extent holds: its record for itself, then up to two
\* records of different names
Listings(names) ==
    {<<[extent |-> RootExtent, isdir |-> TRUE, name |-> SelfName]>>}
        \cup {<<r>> : r \in FindRecords(names)}
        \cup {<<r, s>> : r \in FindRecords({<<"A">>}), s \in FindRecords(names \ {<<"A">>})}

\* the names of the records and the names asked for
FindIds == {<<"A">>, <<"B">>}
FindSegments ==
    {<<>>, <<<<"a">>>>, <<<<"b">>>>, <<<<"a">>, <<"a">>>>, <<<<"a">>, <<"b">>>>}

\* readRecords(extent, segments) run to its end, from record i on: what it
\* leaves in _dirs
RECURSIVE readRecords_dirs(_, _, _, _)
readRecords_dirs(dirs, records, segs, i) ==
    IF i > Len(records) THEN dirs
    ELSE IF /\ Record_fromEntry(records[i]).isdir
            /\ Record_fromEntry(records[i]).name \notin {SelfName, ParentName}
    THEN readRecords_dirs(
             (Append(segs, Record_fromEntry(records[i]).name)
                 :> Record_fromEntry(records[i]).extent) @@ dirs,
             records, segs, i + 1)
    ELSE readRecords_dirs(dirs, records, segs, i + 1)

\* an extent number, or None
Extent(n) == [found |-> TRUE, extent |-> n]
NoExtent == [found |-> FALSE, extent |-> 0]

\* self._dirs.get(segments)
dirs_get(dirs, segs) ==
    IF segs \in DOMAIN dirs THEN Extent(dirs[segs]) ELSE NoExtent

\* findDir as it starts: t = segments, ts = [segments]; at is the number of
\* entries of reversed(ts) the second loop is done with
FindFrame(segs) == [t |-> segs, ts |-> <<segs>>, at |-> 0]

\* one test of "while t not in self._dirs" and, when it holds, one turn:
\* t = t[:-1]; ts.append(t). ()[:-1] is ()
findDir_up(dirs, f) ==
    IF f.t \in DOMAIN dirs THEN [f EXCEPT !.at = 0]
    ELSE [f EXCEPT !.t = SubSeq(f.t, 1, Len(f.t) - 1),
                   !.ts = Append(f.ts, SubSeq(f.t, 1, Len(f.t) - 1))]

\* an opened image: ISO(path) and readVDs()
FindInit ==
    /\ \E vds \in Descriptors :
       \E first \in Listings(FindIds), second \in Listings(FindIds) :
           iso = [extents |-> <<first, second>>,
                  dirs |-> ISO_readVDs(<<>>, vds, 1)]
    /\ cur = ISOPath(<<>>)
    /\ stack = <<>>
    /\ yielded = <<>>
    /\ wstatus = "idle"
    /\ last = NoCall
    /\ prev = NoCall
    /\ repo = <<>>
    /\ disk = NoDisk
    /\ mem = NoMem
    /\ zip = NoZip
    /\ procs = <<>>
    /\ origin = NoOrigin
    /\ handles = <<>>
    /\ statinfo = NoStat
    /\ childmap = <<>>

\* findDir(segments) is called; last keeps the cache it is called with
FindCall(segs) ==
    /\ wstatus \in {"idle", "done"}
    /\ stack' = <<FindFrame(segs)>>
    /\ wstatus' = "up"
    /\ last' = Call("findDir", cur, [segments |-> segs, dirs |-> iso.dirs],
                    Ret(NoExtent))
    /\ UNCHANGED <<cur, repo, disk, yielded, mem, zip, prev, procs, later>>

\* the first loop: its test, and a turn when the test holds
FindUp ==
    /\ wstatus = "up"
    /\ Len(stack[1].ts) <= MaxTurns
    /\ stack' = <<findDir_up(iso.dirs, stack[1])>>
    /\ wstatus' = IF stack[1].t \in DOMAIN iso.dirs THEN "down" ELSE "up"
    /\ UNCHANGED <<cur, last, repo, disk, yielded, mem, zip, prev, procs, later>>

\* the second loop, one t of reversed(ts): return None when t is not cached,
\* else read the records of its extent
FindDown ==
    /\ wstatus = "down"
    /\ stack[1].at < Len(stack[1].ts)
    /\ \E t \in {stack[1].ts[Len(stack[1].ts) - stack[1].at]} :
          IF t \notin DOMAIN iso.dirs
          THEN /\ wstatus' = "done"
               /\ last' = [last EXCEPT !.ret = Ret(NoExtent)]
               /\ UNCHANGED <<stack, iso>>
          ELSE /\ iso' = [iso EXCEPT !.dirs =
                             readRecords_dirs(@, iso.extents[iso.dirs[t]], t, 1)]
               /\ stack' = <<[stack[1] EXCEPT !.at = @ + 1]>>
               /\ UNCHANGED <<wstatus, last>>
    /\ UNCHANGED <<cur, repo, disk, yielded, mem, zip, prev, procs,
                   origin, handles, statinfo, childmap>>

\* return self._dirs.get(segments)
FindReturn ==
    /\ wstatus = "down"
    /\ stack[1].at = Len(stack[1].ts)
    /\ wstatus' = "done"
    /\ last' = [last EXCEPT !.ret = Ret(dirs_get(iso.dirs, last.arg.segments))]
    /\ UNCHANGED <<cur, repo, disk, stack, yielded, mem, zip, prev, procs, later>>

FindNext ==
    \/ \E segs \in FindSegments : FindCall(segs)
    \/ FindUp
    \/ FindDown
    \/ FindReturn

SpecFind == FindInit /\ [][FindNext]_vars

\* the extent of the directory the names segs lead to from the directory at
\* extent, None when one of them is not the name of a directory there
RECURSIVE nestedExtent(_, _, _)
nestedExtent(extents, extent, segs) ==
    IF segs = <<>> THEN Extent(extent)
    ELSE IF \E i \in DOMAIN extents[extent] :
                /\ extents[extent][i].isdir
                /\ lower(extents[extent][i].name) = Head(segs)
    THEN nestedExtent(extents,
             extents[extent][CHOOSE i \in DOMAIN extents[extent] :
                                 /\ extents[extent][i].isdir
                                 /\ lower(extents[extent][i].name) = Head(segs)].extent,
             Tail(segs))
    ELSE NoExtent

\* C30: findDir(segments) ends on every opened image, also when readVDs met
\* no primary descriptor: its first loop is never at a t that it neither
\* leaves nor shortens; what it returns on an image with a root is the extent
\* of the nested directory, or None; and the cache only gains entries.
C30_FindDirTerminates ==
    /\ wstatus = "up" => (stack[1].t \in DOMAIN iso.dirs \/ stack[1].t # <<>>)
    /\ (last.op = "findDir" /\ wstatus = "done" /\ <<>> \in DOMAIN last.arg.dirs) =>
           last.ret = Ret(nestedExtent(iso.extents, RootExtent, last.arg.segments))
    /\ last.op = "findDir" =>
           \A k \in DOMAIN last.arg.dirs :
               k \in DOMAIN iso.dirs /\ iso.dirs[k] = last.arg.dirs[k]

\* the parts of C30 on the images that have a primary descriptor
C30_FindDirWithRoot ==
    <<>> \in DOMAIN iso.dirs => C30_FindDirTerminates

=============================================================================
